---- MODULE Spec2Model ----
(***************************************************************************)
(* Obsidian -> Notion mirror: the plugin (main.ts), the sync service        *)
(* (NotionSyncService), the change tracker (FileTracker) and the remote     *)
(* workspace they talk to, as one state machine.                            *)
(*                                                                          *)
(* A local document is a path with a content and a modification time.  A    *)
(* content is an identifier c; what the converters make of it is abstracted *)
(* to BlockCount(c) blocks, and a remote page holds runs of such blocks.    *)
(* Every remote call is a point where the environment may fail the call     *)
(* (bounded by MaxFaults) and where another handler may run.                *)
(***************************************************************************)
EXTENDS Integers, Sequences, FiniteSets, TLC

\* ------------------------------------------------------------------ bounds
MaxClock == 2       \* Date.now() values 1..MaxClock
MaxFaults == 1      \* operations (a remote call with its retries, a local read) that fail in a behaviour
MaxPasses == 2      \* passes started in a behaviour
MaxPages == 12      \* remote pages that ever exist
InitPages == 3      \* unrelated child pages the root holds at start

\* ------------------------------------------------- constants of the program
MAX_RETRIES == 3
UPDATE_BATCH == 40
CREATE_BATCH == 30
CHUNK_BATCH == 40
RETRY_SHRINK_ABOVE == 10
SAFE_SHRINK_ABOVE == 5
PAGE_SIZE == 100

\* ---------------------------------------------------------- the vault's paths
DocPaths == {"n.md", "F/m.md", "A/B/C/d.md", "F.md"}
FolderPaths == {"F", "A", "A/B", "A/B/C"}
CacheKeys == DocPaths \cup FolderPaths
Contents == {1, 2}
RootPageId == 0

\* parts.slice(0, -1).join("/")
ParentOf(p) ==
  CASE p = "n.md" -> ""
    [] p = "F/m.md" -> "F"
    [] p = "A/B/C/d.md" -> "A/B/C"
    [] p = "A/B/C" -> "A/B"
    [] p = "A/B" -> "A"
    [] OTHER -> ""

\* fileName.replace('.md', '') for a document, the last segment for a folder
NameOf(p) ==
  CASE p = "n.md" -> "n"
    [] p = "F.md" -> "F"
    [] p = "F/m.md" -> "m"
    [] p = "A/B/C/d.md" -> "d"
    [] p = "A/B/C" -> "C"
    [] p = "A/B" -> "B"
    [] OTHER -> p

\* String.prototype.toLowerCase on the titles that occur
Lower(t) ==
  CASE t = "F" -> "f"
    [] t = "A" -> "a"
    [] t = "B" -> "b"
    [] t = "C" -> "c"
    [] OTHER -> t

\* the order localeCompare(numeric, base) gives: by parent, then by name
PathRank(p) ==
  CASE p = "F.md" -> 0
    [] p = "n.md" -> 1
    [] p = "A" -> 2
    [] p = "A/B" -> 3
    [] p = "A/B/C" -> 4
    [] p = "A/B/C/d.md" -> 5
    [] p = "F" -> 6
    [] p = "F/m.md" -> 7
    [] OTHER -> 8

\* number of blocks the converters produce for a content
BlockCount(c) ==
  CASE c = 1 -> 2
    [] c = 3 -> 120
    [] OTHER -> 52

Min(a, b) == IF a < b THEN a ELSE b
Max(a, b) == IF a > b THEN a ELSE b

RECURSIVE SortByRank(_)
SortByRank(S) ==
  IF S = {} THEN << >>
  ELSE LET x == CHOOSE y \in S : \A z \in S : PathRank(y) <= PathRank(z)
       IN <<x>> \o SortByRank(S \ {x})

RECURSIVE Ancestors(_)
Ancestors(p) == IF p = "" THEN {} ELSE {p} \cup Ancestors(ParentOf(p))

\* ------------------------------------------------------------ change tracker
NoEntry == [hash |-> 0, lastSync |-> 0]
EmptyTracking == [p \in DocPaths |-> NoEntry]
EmptyCache == [k \in CacheKeys |-> 0]

\* createHash("md5").update(content).digest("hex")
calculateFileHash(c) == 100 + c

\* hasFileChanged that trusts the modification time alone
hasFileChanged_mtimeOnly(fh, p, mtime, content) ==
  IF fh[p] = NoEntry THEN TRUE ELSE mtime > fh[p].lastSync

\* hasFileChanged with the hash comparison turned around
hasFileChanged_sameHash(fh, p, mtime, content) ==
  IF fh[p] = NoEntry THEN TRUE
  ELSE IF mtime > fh[p].lastSync
       THEN calculateFileHash(content) = fh[p].hash
       ELSE FALSE

\* FileTracker.hasFileChanged on a readable file
hasFileChanged(fh, p, mtime, content) ==
  IF fh[p] = NoEntry THEN TRUE
  ELSE IF mtime > fh[p].lastSync
       THEN calculateFileHash(content) # fh[p].hash
       ELSE FALSE

\* hasFileChanged that reads every tracked file before it compares the times
hasFileChangedReads_always(fh, p, mtime) == fh[p] # NoEntry

\* whether hasFileChanged reads the file
hasFileChangedReads(fh, p, mtime) == fh[p] # NoEntry /\ mtime > fh[p].lastSync

updateFileTracking(fh, p, content, t) ==
  [fh EXCEPT ![p] = [hash |-> calculateFileHash(content), lastSync |-> t]]

\* cleanupDeletedFiles that removes nothing
cleanupDeletedFiles_keepAll(fh, existingPaths) == fh

\* FileTracker.cleanupDeletedFiles
cleanupDeletedFiles(fh, existingPaths) ==
  [p \in DocPaths |-> IF p \in existingPaths THEN fh[p] ELSE NoEntry]

\* ------------------------------------------------------------ remote blocks
\* A run is blocks lo..hi of the conversion of content c by converter conv.
Run(conv, c, lo, hi) == [conv |-> conv, c |-> c, lo |-> lo, hi |-> hi]
FolderIntro == Run("folder", 0, 1, 1)       \* "Pasta sincronizada do Obsidian"
MinimalBlock == Run("minimal", 0, 1, 1)     \* "Este conteudo foi simplificado"

RunLen(r) == r.hi - r.lo + 1

RECURSIVE BlockTotal(_)
BlockTotal(bs) == IF bs = << >> THEN 0 ELSE RunLen(Head(bs)) + BlockTotal(Tail(bs))

\* children are appended at the end of the page
AppendRun(bs, r) ==
  IF r.hi < r.lo THEN bs
  ELSE IF bs # << >> /\ bs[Len(bs)].conv = r.conv /\ bs[Len(bs)].c = r.c
          /\ bs[Len(bs)].hi + 1 = r.lo
       THEN [bs EXCEPT ![Len(bs)].hi = r.hi]
       ELSE Append(bs, r)

\* the page's children without its first k blocks
RECURSIVE DropBlocks(_, _)
DropBlocks(bs, k) ==
  IF k <= 0 \/ bs = << >> THEN bs
  ELSE IF RunLen(Head(bs)) <= k THEN DropBlocks(Tail(bs), k - RunLen(Head(bs)))
       ELSE <<[Head(bs) EXCEPT !.lo = @ + k]>> \o Tail(bs)

\* what a page holds when all blocks of content c were written by conv
Converted(conv, c) == AppendRun(<< >>, Run(conv, c, 1, BlockCount(c)))

\* --------------------------------------------------- transport retry wrapper
\* blocks.length of the k-th attempt: after a failed attempt the batch is cut
\* to blocks.slice(0, blocks.length / 2) when it is longer than `above`
RECURSIVE AttemptSize(_, _, _)
AttemptSize(n, k, above) ==
  IF k <= 1 THEN n
  ELSE LET s == AttemptSize(n, k - 1, above)
       IN IF s > above THEN s \div 2 ELSE s

\* the longest blocks array among the first k attempts of a send of n blocks
RECURSIVE largestAttempt(_, _, _)
largestAttempt(n, k, above) ==
  IF k <= 1 THEN n
  ELSE Max(AttemptSize(n, k, above), largestAttempt(n, k - 1, above))

\* retryResult with one attempt fewer before it gives up
retryResult_twoAttempts(n, f, above) ==
  IF f >= MAX_RETRIES - 1
  THEN [ok |-> FALSE, written |-> 0, attempts |-> MAX_RETRIES - 1,
        largest |-> largestAttempt(n, MAX_RETRIES - 1, above)]
  ELSE [ok |-> TRUE, written |-> AttemptSize(n, f + 1, above), attempts |-> f + 1,
        largest |-> largestAttempt(n, f + 1, above)]

\* One send of a batch of n blocks whose first f attempts fail.
\* ok: the call returned; written: blocks of the batch the remote took;
\* attempts: requests issued; largest: the longest blocks array among them.
retryResult(n, f, above) ==
  IF f >= MAX_RETRIES
  THEN [ok |-> FALSE, written |-> 0, attempts |-> MAX_RETRIES,
        largest |-> largestAttempt(n, MAX_RETRIES, above)]
  ELSE [ok |-> TRUE, written |-> AttemptSize(n, f + 1, above), attempts |-> f + 1,
        largest |-> largestAttempt(n, f + 1, above)]

appendBlocksWithRetry(n, f) == retryResult(n, f, RETRY_SHRINK_ABOVE)

appendBlocksSafely(n, f) == retryResult(n, f, SAFE_SHRINK_ABOVE)

\* number of batches of `size` that n blocks make
Batches(n, size) == (n + size - 1) \div size
BatchLo(b, size) == (b - 1) * size + 1
\* BatchHi of a loop that sends everything from the batch's start at once
BatchHi_rest(b, size, n) == n

BatchHi(b, size, n) == Min(b * size, n)

\* Update path (syncFilesToNotion): batches of UPDATE_BATCH through
\* appendBlocksWithRetry; the first exhausted batch throws.
\* fs[b] is the number of failing attempts of batch b.
RECURSIVE sendUpdateBatches(_, _, _, _, _)
sendUpdateBatches(bs, c, b, fs, calls) ==
  IF b > Batches(BlockCount(c), UPDATE_BATCH)
  THEN [blocks |-> bs, ok |-> TRUE, calls |-> calls, largest |-> 0]
  ELSE LET lo == BatchLo(b, UPDATE_BATCH)
           hi == BatchHi(b, UPDATE_BATCH, BlockCount(c))
           r == appendBlocksWithRetry(hi - lo + 1, fs[b])
       IN IF r.ok
          THEN [sendUpdateBatches(AppendRun(bs, Run("enhanced", c, lo, lo + r.written - 1)),
                                  c, b + 1, fs, calls + r.attempts)
                  EXCEPT !.largest = Max(@, r.largest)]
          ELSE [blocks |-> bs, ok |-> FALSE, calls |-> calls + r.attempts,
                largest |-> r.largest]

\* Create path (createFormattedNotionPage): batches of CREATE_BATCH through
\* appendBlocksWithRetry; an exhausted batch is retried block by block, and a
\* block that exhausts its own retries ends that batch silently.
\* ind[b] is the number of blocks of batch b the block-by-block fallback
\* writes before one of them is exhausted (the batch length when none is).
\* ok: no batch was exhausted (createFormattedNotionPage returns either way).
RECURSIVE sendCreateBatches(_, _, _, _, _, _, _)
sendCreateBatches(bs, c, b, fs, ind, calls, ok) ==
  IF b > Batches(BlockCount(c), CREATE_BATCH)
  THEN [blocks |-> bs, ok |-> ok, calls |-> calls, largest |-> 0]
  ELSE LET lo == BatchLo(b, CREATE_BATCH)
           hi == BatchHi(b, CREATE_BATCH, BlockCount(c))
           r == appendBlocksWithRetry(hi - lo + 1, fs[b])
           k == Min(ind[b], hi - lo + 1)
           single == IF k < hi - lo + 1 THEN k + MAX_RETRIES ELSE k
       IN IF r.ok
          THEN [sendCreateBatches(AppendRun(bs, Run("parse", c, lo, lo + r.written - 1)),
                                  c, b + 1, fs, ind, calls + r.attempts, ok)
                  EXCEPT !.largest = Max(@, r.largest)]
          ELSE [sendCreateBatches(AppendRun(bs, Run("parse", c, lo, lo + k - 1)),
                                  c, b + 1, fs, ind, calls + r.attempts + single, FALSE)
                  EXCEPT !.largest = Max(@, r.largest)]

\* Full-resync path (createNotionPageRobust): chunk 1 travels with the page
\* create, chunks 2.. go through appendBlocksSafely; an exhausted chunk throws
\* into the minimal-page fallback.
RECURSIVE sendRemainingChunks(_, _, _, _, _)
sendRemainingChunks(bs, c, b, fs, calls) ==
  IF b > Batches(BlockCount(c), CHUNK_BATCH)
  THEN [blocks |-> bs, ok |-> TRUE, calls |-> calls, largest |-> 0]
  ELSE LET lo == BatchLo(b, CHUNK_BATCH)
           hi == BatchHi(b, CHUNK_BATCH, BlockCount(c))
           r == appendBlocksSafely(hi - lo + 1, fs[b])
       IN IF r.ok
          THEN [sendRemainingChunks(AppendRun(bs, Run("utils", c, lo, lo + r.written - 1)),
                                    c, b + 1, fs, calls + r.attempts)
                  EXCEPT !.largest = Max(@, r.largest)]
          ELSE [blocks |-> bs, ok |-> FALSE, calls |-> calls + r.attempts,
                largest |-> r.largest]

\* --------------------------------------------------------------------- state
VARIABLES
  vault,      \* path -> [exists, content, mtime]: the local documents
  now,        \* Date.now()
  pages,      \* remote pages by id: [parent, title, archived, blocks]
  svc,        \* service instance -> [pageCache, fileHashes]
  cur,        \* the instance plugin.notionSyncService refers to
  persisted,  \* settings.fileTracking as last written by saveData
  pass,       \* handler slot -> the pass that handler is running
  faults,     \* failed calls so far
  started,    \* passes started so far
  last,       \* what the previous finished pass was (history)
  dirty,      \* a local change happened since the previous pass started (history)
  overlap,    \* whether handlers are allowed to overlap in this behaviour
  excludeFolders, \* settings.excludeFolders: a set of path prefixes
  probe       \* the last direct call of the change tracker and its answer

vars == <<vault, now, pages, svc, cur, persisted, pass, faults, started, last,
          dirty, overlap, excludeFolders, probe>>

Slots == {"cmd", "save"}
Inst == {1, 2}

IdlePass ==
  [pc |-> "idle", kind |-> "none", inst |-> 0, files |-> << >>, folders |-> << >>,
   fi |-> 0, i |-> 0, content |-> 0, parentId |-> 0, children |-> << >>, ai |-> 0,
   log |-> << >>, writes |-> 0, creates |-> 0, archives |-> 0, largest |-> 0,
   links |-> << >>,
   thrownBy |-> "none", faulted |-> FALSE, touched |-> {}, stale |-> {},
   rerun |-> FALSE, rootKids |-> << >>, pagesBefore |-> 0,
   pre |-> [pageCache |-> EmptyCache, fileHashes |-> EmptyTracking]]

NoProbe == [op |-> "none", path |-> "", result |-> FALSE, tracked |-> FALSE,
            mutated |-> FALSE, newer |-> FALSE, read |-> FALSE]

NoLast == [kind |-> "none", files |-> << >>, faulted |-> FALSE, done |-> FALSE]

Range(f) == {f[x] : x \in DOMAIN f}

\* ------------------------------------------------------------- remote lookups
\* child pages of a parent, in creation order, archived ones left out
ChildPages(parentId) ==
  SelectSeq([k \in 1..Len(pages) |-> k],
            LAMBDA k : pages[k].parent = parentId /\ ~pages[k].archived)

\* GET blocks/{parent}/children?page_size=100, first page only, child pages of it
FirstPageChildren(parentId) ==
  LET own == IF parentId = RootPageId THEN 0 ELSE BlockTotal(pages[parentId].blocks)
      kids == ChildPages(parentId)
      room == IF PAGE_SIZE > own THEN PAGE_SIZE - own ELSE 0
  IN SubSeq(kids, 1, Min(Len(kids), room))

FirstWithTitle(ids, title) ==
  LET hits == SelectSeq(ids, LAMBDA k : Lower(pages[k].title) = Lower(title))
  IN IF hits = << >> THEN 0 ELSE Head(hits)

\* the id found, 0 for null; a failed request answers null
doesPageExistByTitle(parentId, title, ok) ==
  IF ok THEN FirstWithTitle(FirstPageChildren(parentId), title) ELSE 0

doesFolderExistInNotion(parentId, folderName, ok) ==
  IF ok THEN FirstWithTitle(FirstPageChildren(parentId), folderName) ELSE 0

\* all pages of the paginated listing
getAllChildPages(parentId) == ChildPages(parentId)

getParentPageId(cache, parentPath) ==
  IF parentPath = "" THEN RootPageId ELSE cache[parentPath]

NewPage(parentId, title, blocks) ==
  [parent |-> parentId, title |-> title, archived |-> FALSE, blocks |-> blocks]

\* the remote page of a local path, found by walking the titles from the root;
\* 0 when there is none
RECURSIVE RemotePage(_)
RemotePage(p) ==
  LET par == IF ParentOf(p) = "" THEN RootPageId ELSE RemotePage(ParentOf(p))
  IN IF ParentOf(p) # "" /\ par = 0 THEN 0
     ELSE FirstWithTitle(ChildPages(par), NameOf(p))

\* ------------------------------------------------------------------- plugin
\* the characters of a path ("x.md" stands for its four characters)
Chars(p) ==
  CASE p = "n.md" -> <<"n", ".md">>
    [] p = "F.md" -> <<"F", ".md">>
    [] p = "F/m.md" -> <<"F", "/", "m", ".md">>
    [] OTHER -> <<"A", "/", "B", "/", "C", "/", "d", ".md">>

\* String.prototype.startsWith
startsWith(str, prefix) ==
  Len(prefix) <= Len(str) /\ \A k \in 1..Len(prefix) : str[k] = prefix[k]

\* isInExcludedFolder with the prefix test alone
isInExcludedFolder_prefixOnly(path, folders) ==
  \E folder \in folders : path = folder \/ startsWith(path, folder)

\* path === folder || path.startsWith(folder + "/"), for some folder
isInExcludedFolder(path, folders) ==
  \E folder \in folders : path = folder \/ startsWith(path, Append(folder, "/"))

\* scanVault: the vault's markdown files outside the excluded folders
scanVault ==
  {p \in DocPaths : vault[p].exists /\ ~isInExcludedFolder(Chars(p), excludeFolders)}

sortFilesByPath(S) == SortByRank(S)

\* sortedFolders with the order turned around (the longest paths first)
sortedFolders_deepestFirst(files) ==
  LET up == SortByRank(UNION {Ancestors(ParentOf(files[k])) : k \in DOMAIN files})
  IN [k \in 1..Len(up) |-> up[Len(up) + 1 - k]]

\* ensureFolderStructure's sortedFolders
sortedFolders(files) ==
  SortByRank(UNION {Ancestors(ParentOf(files[k])) : k \in DOMAIN files})

\* the vault at start: two documents, one of them in a folder
InitVault ==
  [p \in DocPaths |-> [exists |-> p \in {"n.md", "F/m.md"}, content |-> 1, mtime |-> 0]]

InitRemote(n) == [k \in 1..n |-> NewPage(RootPageId, "old", << >>)]

InitWith(ov) ==
  /\ vault = InitVault
  /\ now = 1
  /\ pages = InitRemote(InitPages)
  /\ svc = [k \in Inst |-> [pageCache |-> EmptyCache, fileHashes |-> EmptyTracking]]
  /\ cur = 1
  /\ persisted = EmptyTracking
  /\ pass = [s \in Slots |-> IdlePass]
  /\ faults = 0
  /\ started = 0
  /\ last = NoLast
  /\ dirty = FALSE
  /\ overlap = ov
  /\ excludeFolders = {}
  /\ probe = NoProbe

Init == InitWith(FALSE)

\* -------------------------------------------------------------- environment
Running(s) == pass[s].pc # "idle"

\* A local change is observed by a pass only where the pass reads the vault:
\* when it starts (scanVault) and at its reads.  Local changes are therefore
\* placed between passes and right before a pass's read or commit.
Observable ==
  \/ \A s \in Slots : ~Running(s)
  \/ \E s \in Slots : pass[s].pc \in {"detect", "read", "write"}

Touch(p) ==
  [s \in Slots |-> IF Running(s) THEN [pass[s] EXCEPT !.touched = @ \cup {p}]
                   ELSE pass[s]]

\* the user saves document p with content c (the same content: a touch)
EditFile(p, c) ==
  /\ vault[p].exists
  /\ Observable
  /\ now < MaxClock
  /\ now' = now + 1
  /\ vault' = [vault EXCEPT ![p].content = c, ![p].mtime = now + 1]
  /\ pass' = Touch(p)
  /\ dirty' = TRUE
  /\ UNCHANGED <<pages, svc, cur, persisted, faults, started, last, overlap,
                 excludeFolders, probe>>

\* document p is replaced by another version that carries an older
\* modification time (a copy that preserves timestamps, a restored backup)
RestoreFile(p, c) ==
  /\ vault[p].exists
  /\ Observable
  /\ c # vault[p].content
  /\ vault[p].mtime # 0
  /\ vault' = [vault EXCEPT ![p].content = c, ![p].mtime = 0]
  /\ pass' = Touch(p)
  /\ dirty' = TRUE
  /\ UNCHANGED <<now, pages, svc, cur, persisted, faults, started, last, overlap,
                 excludeFolders, probe>>

DeleteFile(p) ==
  /\ vault[p].exists
  /\ Observable
  /\ vault' = [vault EXCEPT ![p].exists = FALSE]
  /\ pass' = Touch(p)
  /\ dirty' = TRUE
  /\ UNCHANGED <<now, pages, svc, cur, persisted, faults, started, last, overlap,
                 excludeFolders, probe>>

\* ------------------------------------------------------------ starting a pass
\* documents that have a remote page and a committed fingerprint and were
\* modified since (history)
StaleDocs(files, fh) ==
  {p \in Range(files) :
     /\ RemotePage(p) # 0
     /\ fh[p] # NoEntry
     /\ fh[p].hash # calculateFileHash(vault[p].content)
     /\ vault[p].mtime > fh[p].lastSync}

\* pages a pass may create at most: one per folder, one per document, and in a
\* full resync a second (minimal) page per document
PagesNeeded(kind, files) ==
  Cardinality(UNION {Ancestors(ParentOf(files[k])) : k \in DOMAIN files})
    + (IF kind = "full" THEN 2 ELSE 1) * Len(files)

CanStart(s) ==
  /\ ~Running(s)
  /\ started < MaxPasses
  /\ overlap \/ \A t \in Slots : ~Running(t)

Begin(s, kind, files) ==
  /\ pass' = [pass EXCEPT ![s] =
       [IdlePass EXCEPT !.pc = "connect", !.kind = kind, !.inst = cur,
                        !.files = files,
                        !.stale = StaleDocs(files, svc[cur].fileHashes),
                        !.rerun = /\ kind = "inc"
                                  /\ last.done /\ last.kind = "inc" /\ ~last.faulted
                                  /\ last.files = files /\ ~dirty
                                  /\ files # << >>,
                        !.rootKids = ChildPages(RootPageId),
                        !.pagesBefore = Len(pages),
                        !.pre = svc[cur]]]
  /\ started' = started + 1
  /\ dirty' = FALSE
  /\ UNCHANGED <<vault, now, pages, svc, cur, persisted, faults, last, overlap,
                 excludeFolders, probe>>

\* command "Sync to Notion": scanVault, then syncFilesToNotion
StartSync ==
  /\ CanStart("cmd")
  /\ Len(pages) + PagesNeeded("inc", sortFilesByPath(scanVault)) <= MaxPages
  /\ Begin("cmd", "inc", sortFilesByPath(scanVault))

\* command "Sync to Notion (Full Resync)": scanVault, then syncFilesToNotionFull
StartFull ==
  /\ CanStart("cmd")
  /\ \A t \in Slots : ~Running(t)
  /\ Len(pages) + PagesNeeded("full", sortFilesByPath(scanVault)) <= MaxPages
  /\ Begin("cmd", "full", sortFilesByPath(scanVault))

\* vault "modify" handler: syncFilesToNotion([file])
StartOnSave(p) ==
  /\ vault[p].exists
  /\ ~isInExcludedFolder(Chars(p), excludeFolders)
  /\ CanStart("save")
  /\ Len(pages) + PagesNeeded("inc", <<p>>) <= MaxPages
  /\ Begin("save", "inc", <<p>>)

\* where a pass goes once its folders are done / a document is done
AfterFolders(ps) ==
  IF ps.files = << >> THEN "done"
  ELSE IF ps.kind = "full" THEN "read" ELSE "detect"

\* AfterConnect of a full resync that goes on without clearing the root
AfterConnect_noClear(ps, folders) ==
  IF folders = << >> THEN AfterFolders(ps) ELSE "folders"

AfterConnect(ps, folders) ==
  IF ps.kind = "full" THEN "list"
  ELSE IF folders = << >> THEN AfterFolders(ps) ELSE "folders"

NextFile(ps) ==
  IF ps.i + 1 >= Len(ps.files) THEN "done"
  ELSE IF ps.kind = "full" THEN "read" ELSE "detect"

\* ------------------------------------------------------------------ connecting
\* connectStep that prunes and resets before it looks at the test's answer
connectStep_cleanupFirst(ps, sv, ok) ==
  LET folders == sortedFolders(ps.files)
      cleaned == [pageCache |-> IF ps.kind = "full" THEN EmptyCache ELSE sv.pageCache,
                  fileHashes |-> cleanupDeletedFiles(sv.fileHashes, Range(ps.files))]
  IN IF ~ok
     THEN [ps |-> [ps EXCEPT !.pc = "thrown", !.thrownBy = "connect", !.faulted = TRUE],
           sv |-> cleaned]
     ELSE [ps |-> [ps EXCEPT !.pc = AfterConnect(ps, folders), !.folders = folders],
           sv |-> cleaned]

\* testConnection, and what follows it without a suspension: the cache reset
\* of a full resync, cleanupDeletedFiles, the sorts
connectStep(ps, sv, ok) ==
  IF ~ok
  THEN [ps |-> [ps EXCEPT !.pc = "thrown", !.thrownBy = "connect", !.faulted = TRUE],
        sv |-> sv]
  ELSE LET folders == sortedFolders(ps.files)
       IN [ps |-> [ps EXCEPT !.pc = AfterConnect(ps, folders), !.folders = folders],
           sv |-> [pageCache |-> IF ps.kind = "full" THEN EmptyCache ELSE sv.pageCache,
                   fileHashes |-> cleanupDeletedFiles(sv.fileHashes, Range(ps.files))]]

Connect(s) ==
  /\ pass[s].pc = "connect"
  /\ \E ok \in BOOLEAN :
       /\ ok \/ faults < MaxFaults
       /\ LET r == connectStep(pass[s], svc[pass[s].inst], ok)
          IN /\ pass' = [pass EXCEPT ![s] = r.ps]
             /\ svc' = [svc EXCEPT ![pass[s].inst] = r.sv]
       /\ faults' = IF ok THEN faults ELSE faults + 1
  /\ UNCHANGED <<vault, now, pages, cur, persisted, started, last, dirty, overlap,
                 excludeFolders, probe>>

\* ------------------------------------------------- full resync: clearing the root
\* clearAllPagesFromRoot: getAllChildPages; a failed listing is rethrown by
\* clearAllPagesFromRoot and again by syncFilesToNotionFull
listStep(ps, ok) ==
  IF ~ok
  THEN [ps EXCEPT !.pc = "thrown", !.thrownBy = "list", !.faulted = TRUE]
  ELSE LET kids == getAllChildPages(RootPageId)
       IN [ps EXCEPT !.children = kids,
                     !.pc = IF kids # << >> THEN "archive"
                            ELSE IF ps.folders = << >> THEN AfterFolders(ps)
                            ELSE "folders"]

ListRootChildren(s) ==
  /\ pass[s].pc = "list"
  /\ \E ok \in BOOLEAN :
       /\ ok \/ faults < MaxFaults
       /\ pass' = [pass EXCEPT ![s] = listStep(pass[s], ok)]
       /\ faults' = IF ok THEN faults ELSE faults + 1
  /\ UNCHANGED <<vault, now, pages, svc, cur, persisted, started, last, dirty, overlap,
                 excludeFolders, probe>>

\* archiveStep whose failure is thrown out of the pass
archiveStep_rethrow(ps, ok) ==
  IF ~ok
  THEN [ps EXCEPT !.ai = @ + 1, !.archives = @ + 1, !.writes = @ + 1,
                  !.pc = "thrown", !.thrownBy = "archive", !.faulted = TRUE]
  ELSE [ps EXCEPT !.ai = @ + 1, !.archives = @ + 1, !.writes = @ + 1,
                  !.pc = IF ps.ai + 1 < Len(ps.children) THEN "archive"
                         ELSE IF ps.folders = << >> THEN AfterFolders(ps)
                         ELSE "folders"]

\* one turn of the archive loop: archivePage; its failure is logged and skipped
archiveStep(ps, ok) ==
  [ps EXCEPT !.ai = @ + 1, !.archives = @ + 1, !.writes = @ + 1,
             !.faulted = @ \/ ~ok,
             !.pc = IF ps.ai + 1 < Len(ps.children) THEN "archive"
                    ELSE IF ps.folders = << >> THEN AfterFolders(ps)
                    ELSE "folders"]

ArchiveNext(s) ==
  /\ pass[s].pc = "archive"
  /\ \E ok \in BOOLEAN :
       /\ ok \/ faults < MaxFaults
       /\ pass' = [pass EXCEPT ![s] = archiveStep(pass[s], ok)]
       /\ pages' = IF ok
                   THEN [pages EXCEPT ![pass[s].children[pass[s].ai + 1]].archived = TRUE]
                   ELSE pages
       /\ faults' = IF ok THEN faults ELSE faults + 1
  /\ UNCHANGED <<vault, now, svc, cur, persisted, started, last, dirty, overlap,
                 excludeFolders, probe>>

\* ---------------------------------------------------------- resolving folders
\* folderTarget that leaves a folder alone when its parent has no cached page
folderTarget_skipOrphan(cache, folder) ==
  IF ParentOf(folder) = ""
  THEN IF cache[folder] # 0 THEN -1 ELSE RootPageId
  ELSE IF cache[ParentOf(folder)] # 0
       THEN IF cache[folder] # 0 THEN -1 ELSE cache[ParentOf(folder)]
       ELSE -1

\* folderTarget that looks every folder up, and creates it, under the root
folderTarget_alwaysRoot(cache, folder) ==
  IF cache[folder] # 0 THEN -1 ELSE RootPageId

\* One turn of ensureFolderStructure's loop over sortedFolders.
\* target: the page the folder is looked up and created under (-1: the turn
\* does nothing, the folder is cached already).
folderTarget(cache, folder) ==
  IF ParentOf(folder) = ""
  THEN IF cache[folder] # 0 THEN -1 ELSE RootPageId
  ELSE IF cache[ParentOf(folder)] # 0
       THEN IF cache[folder] # 0 THEN -1 ELSE cache[ParentOf(folder)]
       ELSE RootPageId          \* "Pasta pai nao encontrada ..., usando raiz"

EnsureFolder(s) ==
  /\ pass[s].pc = "folders"
  /\ LET ps == pass[s]
         folder == ps.folders[ps.fi + 1]
         cache == svc[ps.inst].pageCache
         target == folderTarget(cache, folder)
         nextPc == IF ps.fi + 1 < Len(ps.folders) THEN "folders" ELSE AfterFolders(ps)
     IN \E lookOk \in BOOLEAN, createOk \in BOOLEAN :
          LET existing == IF target = -1 THEN 0
                          ELSE doesFolderExistInNotion(target, NameOf(folder), lookOk)
              creates == target # -1 /\ existing = 0
              cost == (IF lookOk THEN 0 ELSE 1) + (IF createOk THEN 0 ELSE 1)
              newId == Len(pages) + 1
          IN /\ target = -1 => lookOk
             /\ ~creates => createOk
             /\ faults + cost <= MaxFaults
             /\ faults' = faults + cost
             /\ pages' = IF creates /\ createOk
                         THEN Append(pages, NewPage(target, NameOf(folder), <<FolderIntro>>))
                         ELSE pages
             /\ svc' = IF existing # 0
                       THEN [svc EXCEPT ![ps.inst].pageCache[folder] = existing]
                       ELSE IF creates /\ createOk
                            THEN [svc EXCEPT ![ps.inst].pageCache[folder] = newId]
                            ELSE svc
             /\ pass' = [pass EXCEPT ![s] =
                  [ps EXCEPT !.fi = @ + 1, !.pc = nextPc,
                             !.faulted = @ \/ cost > 0,
                             !.creates = IF creates THEN @ + 1 ELSE @,
                             !.writes = IF creates THEN @ + 1 ELSE @,
                             !.largest = IF creates THEN Max(@, BlockTotal(<<FolderIntro>>))
                                         ELSE @]]
  /\ UNCHANGED <<vault, now, cur, persisted, started, last, dirty, overlap,
                 excludeFolders, probe>>

\* ------------------------------------------------ cross-document references
\* the [[target]] and [[target|label]] references of each document's text, in
\* the order they stand in it (label "": the reference has no label)
Refs(p) ==
  CASE p = "n.md" -> <<[target |-> "F/m", label |-> ""]>>
    [] p = "F/m.md" -> <<[target |-> "n", label |-> "the note"],
                         [target |-> "x", label |-> ""]>>
    [] OTHER -> << >>

\* file.path.substring(0, file.path.length - 3)
BaseName(p) ==
  CASE p = "n.md" -> "n"
    [] p = "F.md" -> "F"
    [] p = "F/m.md" -> "F/m"
    [] p = "A/B/C/d.md" -> "A/B/C/d"
    [] OTHER -> p

\* linkMap.get(target): linkMap is filled from the pass's file list with each
\* file's name and its path without .md, a later file replacing an earlier
\* one on the same key; "" when the key is not there
linkMapGet(files, target) ==
  LET hits == {k \in 1..Len(files) :
                 NameOf(files[k]) = target \/ BaseName(files[k]) = target}
  IN IF hits = {} THEN ""
     ELSE files[CHOOSE k \in hits : \A o \in hits : o <= k]

\* processLinksInContent: what each reference of the text is replaced by, a
\* markdown link to the cached page's id or the label (the target when the
\* reference has no label)
processLinksInContent(refs, files, cache) ==
  [k \in DOMAIN refs |->
     LET targetPath == linkMapGet(files, refs[k].target)
         linkText == IF refs[k].label # "" THEN refs[k].label ELSE refs[k].target
     IN IF targetPath # "" /\ cache[targetPath] # 0
        THEN [kind |-> "link", text |-> linkText, id |-> cache[targetPath]]
        ELSE [kind |-> "text", text |-> linkText, id |-> 0]]

\* ------------------------------------------------------------ per document
\* what the loop did with one document (history): its outcome, the path taken,
\* whether every send through the retry wrapper returned, and whether one of
\* them went through on its third attempt with a reduced batch
Entry(p, outcome, via, sendOk, third) ==
  [path |-> p, outcome |-> outcome, via |-> via, sendOk |-> sendOk, third |-> third]

\* FileDone whose loop is left when a document failed
FileDone_stopOnError(ps, entry) ==
  [ps EXCEPT !.log = Append(@, entry), !.i = @ + 1,
             !.pc = IF entry.outcome = "error" THEN "done" ELSE NextFile(ps),
             !.content = 0, !.parentId = 0, !.links = << >>,
             !.faulted = @ \/ entry.outcome = "error"]

\* the loop moves on to the next document
FileDone(ps, entry) ==
  [ps EXCEPT !.log = Append(@, entry), !.i = @ + 1, !.pc = NextFile(ps),
             !.content = 0, !.parentId = 0, !.links = << >>,
             !.faulted = @ \/ entry.outcome = "error"]

CurrentFile(ps) == ps.files[ps.i + 1]

\* Incremental pass, one document, from the title lookup to the content read:
\* adopt a page found by title, skip an unchanged cached document, or read the
\* content to sync.  doesNotionPageExist answers true for every page the cache
\* can hold here (pages are archived, never purged, and any error but 404
\* answers true).
detectStep(ps, sv, lookOk, trackOk, readOk) ==
  LET p == CurrentFile(ps)
      cached == getParentPageId(sv.pageCache, ParentOf(p))
      parentId == IF cached # 0 THEN cached ELSE RootPageId
      existing == doesPageExistByTitle(parentId, NameOf(p), lookOk)
      f == vault[p]
  IN IF existing # 0 /\ sv.pageCache[p] = 0
     THEN [ps |-> FileDone(ps, Entry(p, "existing", "adopt", TRUE, FALSE)),
           sv |-> [sv EXCEPT !.pageCache[p] = existing]]
     ELSE IF /\ sv.pageCache[p] # 0
             /\ hasFileChangedReads(sv.fileHashes, p, f.mtime)
             /\ ~(f.exists /\ trackOk)
     THEN [ps |-> FileDone(ps, Entry(p, "error", "detect", TRUE, FALSE)), sv |-> sv]
     ELSE IF /\ sv.pageCache[p] # 0
             /\ ~hasFileChanged(sv.fileHashes, p, f.mtime, f.content)
     THEN [ps |-> FileDone(ps, Entry(p, "skipped", "detect", TRUE, FALSE)), sv |-> sv]
     ELSE IF ~(f.exists /\ readOk)
     THEN [ps |-> FileDone(ps, Entry(p, "error", "read", TRUE, FALSE)), sv |-> sv]
     ELSE [ps |-> [ps EXCEPT !.pc = "write", !.content = f.content,
                             !.parentId = parentId,
                             !.links = processLinksInContent(Refs(p), ps.files,
                                                             sv.pageCache)],
           sv |-> sv]

\* which of the three calls the step reaches (a call not reached cannot fail)
detectReaches(ps, sv, lookOk) ==
  LET p == CurrentFile(ps)
      cached == getParentPageId(sv.pageCache, ParentOf(p))
      parentId == IF cached # 0 THEN cached ELSE RootPageId
      existing == doesPageExistByTitle(parentId, NameOf(p), lookOk)
      f == vault[p]
      adopt == existing # 0 /\ sv.pageCache[p] = 0
      tracked == ~adopt /\ sv.pageCache[p] # 0
      track == tracked /\ hasFileChangedReads(sv.fileHashes, p, f.mtime) /\ f.exists
  IN [track |-> track,
      read |-> /\ ~adopt
               /\ f.exists
               /\ tracked => hasFileChanged(sv.fileHashes, p, f.mtime, f.content)]

DetectAndRead(s) ==
  /\ pass[s].pc = "detect"
  /\ \E lookOk \in BOOLEAN, trackOk \in BOOLEAN, readOk \in BOOLEAN :
       LET ps == pass[s]
           sv == svc[ps.inst]
           reach == detectReaches(ps, sv, lookOk)
           cost == (IF lookOk THEN 0 ELSE 1) + (IF trackOk THEN 0 ELSE 1)
                   + (IF readOk THEN 0 ELSE 1)
           r == detectStep(ps, sv, lookOk, trackOk, readOk)
       IN /\ ~reach.track => trackOk
          /\ (~reach.read \/ ~trackOk) => readOk
          /\ faults + cost <= MaxFaults
          /\ faults' = faults + cost
          /\ pass' = [pass EXCEPT ![s] = [r.ps EXCEPT !.faulted = @ \/ cost > 0]]
          /\ svc' = [svc EXCEPT ![ps.inst] = r.sv]
  /\ UNCHANGED <<vault, now, pages, cur, persisted, started, last, dirty, overlap,
                 excludeFolders, probe>>

\* Full resync, one document: vault.read
ReadForFull(s) ==
  /\ pass[s].pc = "read"
  /\ \E readOk \in BOOLEAN :
       LET ps == pass[s]
           p == CurrentFile(ps)
       IN /\ ~vault[p].exists => readOk
          /\ readOk \/ faults < MaxFaults
          /\ faults' = IF readOk THEN faults ELSE faults + 1
          /\ pass' = [pass EXCEPT ![s] =
               IF vault[p].exists /\ readOk
               THEN [ps EXCEPT !.pc = "write", !.content = vault[p].content,
                               !.links = processLinksInContent(Refs(p), ps.files,
                                                               svc[ps.inst].pageCache)]
               ELSE FileDone(ps, Entry(p, "error", "read", TRUE, FALSE))]
  /\ UNCHANGED <<vault, now, pages, svc, cur, persisted, started, last, dirty, overlap,
                 excludeFolders, probe>>

\* --------------------------------------------------------------------- writing
\* number of sends of a plan that fail at least once
RECURSIVE Failing(_)
Failing(fs) ==
  IF fs = << >> THEN 0 ELSE (IF Head(fs) > 0 THEN 1 ELSE 0) + Failing(Tail(fs))

\* failure plans for nb batches: fs[b] failing attempts of batch b, none after
\* a batch that ends the document's write
Plans(nb) == [1..nb -> 0..MAX_RETRIES]

\* the write was one send that failed twice and went through on its third
\* attempt with a reduced batch, and nothing else failed (history)
ThirdAttempt(n, size, above, fs, from) ==
  \E b \in DOMAIN fs :
     /\ b >= from
     /\ fs[b] = 2
     /\ \A o \in DOMAIN fs : o # b => fs[o] = 0
     /\ LET len == BatchHi(b, size, n) - BatchLo(b, size) + 1
        IN AttemptSize(len, 3, above) < len

\* clearAllBlocks: list the page's children (one page of PAGE_SIZE), delete
\* each.  how = 0: all calls succeed; 1: the listing fails; 2: the second
\* DELETE fails.  Both failures are rethrown.
clearAllBlocks(bs, how) ==
  LET listed == Min(BlockTotal(bs), PAGE_SIZE)
  IN CASE how = 0 -> [ok |-> TRUE, blocks |-> DropBlocks(bs, listed), calls |-> listed]
       [] how = 1 -> [ok |-> FALSE, blocks |-> bs, calls |-> 0]
       [] OTHER -> [ok |-> FALSE, blocks |-> DropBlocks(bs, 1), calls |-> 2]

\* updateFileTracking at the end of a document's sync: reads the file again
commitStep(sv, p, ok) ==
  IF vault[p].exists /\ ok
  THEN [ok |-> TRUE,
        sv |-> [sv EXCEPT !.fileHashes =
                  updateFileTracking(@, p, vault[p].content, now)]]
  ELSE [ok |-> FALSE, sv |-> sv]

\* Incremental pass, the document has a cached page: clear it, append the
\* converted blocks in batches of UPDATE_BATCH, commit the fingerprint
WriteUpdate(s) ==
  /\ pass[s].pc = "write"
  /\ pass[s].kind = "inc"
  /\ svc[pass[s].inst].pageCache[CurrentFile(pass[s])] # 0
  /\ LET ps == pass[s]
         sv == svc[ps.inst]
         p == CurrentFile(ps)
         id == sv.pageCache[p]
         c == ps.content
         nb == Batches(BlockCount(c), UPDATE_BATCH)
     IN \E how \in 0..2, fs \in Plans(nb), commitOk \in BOOLEAN :
          LET cl == clearAllBlocks(pages[id].blocks, how)
              snd == sendUpdateBatches(cl.blocks, c, 1, fs, 0)
              cm == commitStep(sv, p, commitOk)
              cost == (IF how = 0 THEN 0 ELSE 1) + Failing(fs) + (IF commitOk THEN 0 ELSE 1)
              third == how = 0 /\ cm.ok
                       /\ ThirdAttempt(BlockCount(c), UPDATE_BATCH, RETRY_SHRINK_ABOVE, fs, 1)
          IN /\ how = 2 => BlockTotal(pages[id].blocks) >= 2
             /\ how # 0 => (Failing(fs) = 0 /\ commitOk)
             /\ \A b \in 1..nb : (fs[b] > 0 => \A o \in 1..(b - 1) : fs[o] < MAX_RETRIES)
             /\ (~snd.ok \/ ~vault[p].exists) => commitOk
             /\ faults + cost <= MaxFaults
             /\ faults' = faults + cost
             /\ pages' = [pages EXCEPT ![id].blocks = IF cl.ok THEN snd.blocks ELSE cl.blocks]
             /\ svc' = [svc EXCEPT ![ps.inst] = IF cl.ok /\ snd.ok THEN cm.sv ELSE sv]
             /\ pass' = [pass EXCEPT ![s] =
                  [FileDone(ps, Entry(p, IF cl.ok /\ snd.ok /\ cm.ok THEN "synced" ELSE "error",
                                      "update", cl.ok /\ snd.ok, third))
                     EXCEPT !.writes = @ + cl.calls + (IF cl.ok THEN snd.calls ELSE 0),
                            !.largest = IF cl.ok THEN Max(@, snd.largest) ELSE @,
                            !.faulted = @ \/ cost > 0]]
  /\ UNCHANGED <<vault, now, cur, persisted, started, last, dirty, overlap,
                 excludeFolders, probe>>

\* Incremental pass, no cached page: createFormattedNotionPage (page create,
\* then batches of CREATE_BATCH with the block-by-block fallback), cache the
\* id, commit the fingerprint
WriteCreate(s) ==
  /\ pass[s].pc = "write"
  /\ pass[s].kind = "inc"
  /\ svc[pass[s].inst].pageCache[CurrentFile(pass[s])] = 0
  /\ LET ps == pass[s]
         sv == svc[ps.inst]
         p == CurrentFile(ps)
         c == ps.content
         nb == Batches(BlockCount(c), CREATE_BATCH)
         newId == Len(pages) + 1
     IN \E createOk \in BOOLEAN, fs \in Plans(nb), ind \in [1..nb -> {0, CREATE_BATCH}],
           commitOk \in BOOLEAN :
          LET snd == sendCreateBatches(<< >>, c, 1, fs, ind, 0, TRUE)
              withId == [sv EXCEPT !.pageCache[p] = newId]
              cm == commitStep(withId, p, commitOk)
              lost == Cardinality({b \in 1..nb : ind[b] = 0})
              cost == (IF createOk THEN 0 ELSE 1) + Failing(fs) + lost
                      + (IF commitOk THEN 0 ELSE 1)
              third == createOk /\ cm.ok
                       /\ ThirdAttempt(BlockCount(c), CREATE_BATCH, RETRY_SHRINK_ABOVE, fs, 1)
          IN /\ ~createOk => (Failing(fs) = 0 /\ commitOk)
             /\ \A b \in 1..nb : fs[b] < MAX_RETRIES => ind[b] = CREATE_BATCH
             /\ ~vault[p].exists => commitOk
             /\ faults + cost <= MaxFaults
             /\ faults' = faults + cost
             /\ pages' = IF createOk
                         THEN Append(pages, NewPage(ps.parentId, NameOf(p), snd.blocks))
                         ELSE pages
             /\ svc' = [svc EXCEPT ![ps.inst] = IF createOk THEN cm.sv ELSE sv]
             /\ pass' = [pass EXCEPT ![s] =
                  [FileDone(ps, Entry(p, IF createOk /\ cm.ok THEN "synced" ELSE "error",
                                      "create", snd.ok, third))
                     EXCEPT !.writes = @ + 1 + (IF createOk THEN snd.calls ELSE 0),
                            !.largest = IF createOk THEN Max(@, snd.largest) ELSE @,
                            !.creates = @ + 1,
                            !.faulted = @ \/ cost > 0]]
  /\ UNCHANGED <<vault, now, cur, persisted, started, last, dirty, overlap,
                 excludeFolders, probe>>

\* Full resync, one document: createNotionPageRobust (page create with the
\* first chunk, the other chunks through appendBlocksSafely; any failure falls
\* back to creating a page with the minimal paragraph), cache, commit
WriteFull(s) ==
  /\ pass[s].pc = "write"
  /\ pass[s].kind = "full"
  /\ LET ps == pass[s]
         sv == svc[ps.inst]
         p == CurrentFile(ps)
         c == ps.content
         n == BlockCount(c)
         nb == Batches(n, CHUNK_BATCH)
         cached == getParentPageId(sv.pageCache, ParentOf(p))
         parentId == IF cached # 0 THEN cached ELSE RootPageId
     IN \E createOk \in BOOLEAN, fs \in Plans(nb), fallbackOk \in BOOLEAN,
           commitOk \in BOOLEAN :
          LET first == AppendRun(<< >>, Run("utils", c, 1, BatchHi(1, CHUNK_BATCH, n)))
              snd == sendRemainingChunks(first, c, 2, fs, 0)
              full == createOk /\ snd.ok
              fellBack == ~full /\ fallbackOk
              made == (IF createOk THEN <<NewPage(parentId, NameOf(p), snd.blocks)>> ELSE << >>)
                      \o (IF fellBack THEN <<NewPage(parentId, NameOf(p), <<MinimalBlock>>)>>
                          ELSE << >>)
              id == Len(pages) + Len(made)
              withId == [sv EXCEPT !.pageCache[p] = id]
              cm == commitStep(withId, p, commitOk)
              cost == (IF createOk THEN 0 ELSE 1) + Failing(fs)
                      + (IF fallbackOk THEN 0 ELSE 1) + (IF commitOk THEN 0 ELSE 1)
              third == createOk /\ cm.ok
                       /\ ThirdAttempt(n, CHUNK_BATCH, SAFE_SHRINK_ABOVE, fs, 2)
          IN /\ fs[1] = 0
             /\ ~createOk => Failing(fs) = 0
             /\ \A b \in 1..nb : (fs[b] > 0 => \A o \in 1..(b - 1) : fs[o] < MAX_RETRIES)
             /\ full => fallbackOk
             /\ (~(full \/ fellBack) \/ ~vault[p].exists) => commitOk
             /\ faults + cost <= MaxFaults
             /\ faults' = faults + cost
             /\ pages' = pages \o made
             /\ svc' = [svc EXCEPT ![ps.inst] = IF full \/ fellBack THEN cm.sv ELSE sv]
             /\ pass' = [pass EXCEPT ![s] =
                  [FileDone(ps, Entry(p, IF (full \/ fellBack) /\ cm.ok THEN "synced"
                                         ELSE "error",
                                      IF full THEN "create" ELSE "minimal",
                                      snd.ok, third))
                     EXCEPT !.writes = @ + 1 + (IF createOk THEN snd.calls ELSE 0)
                                         + (IF full THEN 0 ELSE 1),
                            !.largest = Max(Max(@, BlockTotal(first)),
                                            Max(IF createOk THEN snd.largest ELSE 0,
                                                IF full THEN 0
                                                ELSE BlockTotal(<<MinimalBlock>>))),
                            !.creates = @ + 1 + (IF full THEN 0 ELSE 1),
                            !.faulted = @ \/ cost > 0]]
  /\ UNCHANGED <<vault, now, cur, persisted, started, last, dirty, overlap,
                 excludeFolders, probe>>

\* ------------------------------------------------------------ ending a pass
\* an instance id no other running pass refers to
FreshInst(s) ==
  CHOOSE k \in Inst :
    /\ \A t \in Slots \ {s} : Running(t) => pass[t].inst # k
    /\ \A j \in Inst : (\A t \in Slots \ {s} : Running(t) => pass[t].inst # j) => k <= j

getAllTracking(sv) == sv.fileHashes

\* saveSettings: saveData(settings), then a new NotionSyncService built from
\* settings.fileTracking (its page cache starts empty)
saveSettings(tracking, k) ==
  [persisted |-> tracking,
   svc |-> [svc EXCEPT ![k] = [pageCache |-> EmptyCache, fileHashes |-> tracking]],
   cur |-> k]

\* the handler after its pass returned:
\* settings.fileTracking = this.notionSyncService.getFileTracking(); saveSettings()
Finish(s) ==
  /\ pass[s].pc = "done"
  /\ LET r == saveSettings(getAllTracking(svc[cur]), FreshInst(s))
     IN /\ persisted' = r.persisted
        /\ svc' = r.svc
        /\ cur' = r.cur
  /\ last' = [kind |-> pass[s].kind, files |-> pass[s].files,
              faulted |-> pass[s].faulted, done |-> TRUE]
  /\ pass' = [pass EXCEPT ![s] = IdlePass]
  /\ UNCHANGED <<vault, now, pages, faults, started, dirty, overlap, excludeFolders, probe>>

\* the handler's catch: the error is logged and shown, nothing is saved
Caught(s) ==
  /\ pass[s].pc = "thrown"
  /\ last' = [kind |-> pass[s].kind, files |-> pass[s].files,
              faulted |-> TRUE, done |-> FALSE]
  /\ pass' = [pass EXCEPT ![s] = IdlePass]
  /\ UNCHANGED <<vault, now, pages, svc, cur, persisted, faults, started, dirty, overlap,
                 excludeFolders, probe>>

\* ---------------------------------------------------------------- behaviours
\* The plugin with its handlers run one after the other.  A pass then always
\* starts on a service whose page cache is empty (onload and saveSettings build
\* the service anew), so no document has a cached page when it is written and
\* the update path (WriteUpdate) is never taken: UpdateNeedsOverlap below.
Next ==
  \/ \E p \in DocPaths, c \in Contents : EditFile(p, c)
  \/ \E p \in DocPaths : DeleteFile(p)
  \/ StartSync
  \/ StartFull
  \/ \E p \in DocPaths : StartOnSave(p)
  \/ \E s \in Slots : Connect(s)
  \/ \E s \in Slots : ListRootChildren(s)
  \/ \E s \in Slots : ArchiveNext(s)
  \/ \E s \in Slots : EnsureFolder(s)
  \/ \E s \in Slots : DetectAndRead(s)
  \/ \E s \in Slots : ReadForFull(s)
  \/ \E s \in Slots : WriteCreate(s)
  \/ \E s \in Slots : WriteFull(s)
  \/ \E s \in Slots : Finish(s)
  \/ \E s \in Slots : Caught(s)

Spec == Init /\ [][Next]_vars

\* in Spec a document that reaches its write has no cached page
UpdateNeedsOverlap ==
  \A s \in Slots :
    (pass[s].pc = "write" /\ pass[s].kind = "inc")
      => svc[pass[s].inst].pageCache[CurrentFile(pass[s])] = 0

TypeOK ==
  /\ now \in 1..MaxClock
  /\ faults \in 0..MaxFaults
  /\ cur \in Inst
  /\ Len(pages) <= MaxPages
  /\ \A s \in Slots : pass[s].i <= Len(pass[s].files)

\* The plugin with its handlers free to overlap: the "modify" handler and the
\* command run on the one service instance the plugin refers to, and a handler
\* that ends replaces that instance (saveSettings).  A document can then be
\* reached with a cached page, which takes the update path.
NextOverlap ==
  \/ \E p \in DocPaths, c \in Contents : EditFile(p, c)
  \/ StartSync
  \/ \E p \in DocPaths : StartOnSave(p)
  \/ \E s \in Slots : Connect(s)
  \/ \E s \in Slots : EnsureFolder(s)
  \/ \E s \in Slots : DetectAndRead(s)
  \/ \E s \in Slots : WriteUpdate(s)
  \/ \E s \in Slots : WriteCreate(s)
  \/ \E s \in Slots : Finish(s)
  \/ \E s \in Slots : Caught(s)

SpecOverlap == InitWith(TRUE) /\ [][NextOverlap]_vars

\* ------------------------------------------------- the change tracker by itself
\* updateFileTracking called directly on a document
TrackerCommit(p) ==
  /\ vault[p].exists
  /\ svc' = [svc EXCEPT ![cur].fileHashes =
               updateFileTracking(@, p, vault[p].content, now)]
  /\ probe' = [NoProbe EXCEPT !.op = "commit", !.path = p, !.tracked = TRUE]
  /\ UNCHANGED <<vault, now, pages, cur, persisted, pass, faults, started, last,
                 dirty, overlap, excludeFolders>>

\* hasFileChanged called directly on a document; the answer is kept with what
\* was true of the document at the call
TrackerCheck(p) ==
  /\ vault[p].exists
  /\ LET fh == svc[cur].fileHashes
         f == vault[p]
     IN probe' = [op |-> "check", path |-> p,
                  result |-> hasFileChanged(fh, p, f.mtime, f.content),
                  tracked |-> fh[p] # NoEntry,
                  mutated |-> fh[p] # NoEntry /\ fh[p].hash # calculateFileHash(f.content),
                  newer |-> f.mtime > fh[p].lastSync,
                  read |-> hasFileChangedReads(fh, p, f.mtime)]
  /\ UNCHANGED <<vault, now, pages, svc, cur, persisted, pass, faults, started, last,
                 dirty, overlap, excludeFolders>>

NextTracker ==
  \/ \E p \in DocPaths, c \in Contents : EditFile(p, c)
  \/ \E p \in DocPaths, c \in Contents : RestoreFile(p, c)
  \/ \E p \in DocPaths : TrackerCommit(p)
  \/ \E p \in DocPaths : TrackerCheck(p)

SpecTracker == Init /\ [][NextTracker]_vars

\* ----------------------------------------------------------------- properties
\* what a document's page holds when the document's content c was written whole
InSync(p) ==
  /\ RemotePage(p) # 0
  /\ pages[RemotePage(p)].blocks \in
       {Converted("enhanced", vault[p].content), Converted("parse", vault[p].content),
        Converted("utils", vault[p].content)}

\* C1: a document with a remote page and a committed fingerprint that was
\* modified locally is, when "Sync to Notion" ran again without any failure,
\* written to its page with the new content and has the new fingerprint
C1_ModifiedDocumentIsResynced ==
  LET ps == pass["cmd"]
  IN (ps.pc = "done" /\ ps.kind = "inc" /\ faults = 0)
       => \A p \in ps.stale \ ps.touched :
            /\ InSync(p)
            /\ svc[ps.inst].fileHashes[p].hash = calculateFileHash(vault[p].content)

\* C2: the second of two incremental runs over the same documents with no
\* local change in between issues no remote write and reports every document
\* as unchanged
C2_SecondRunAllUnchanged ==
  \A s \in {"cmd"} :
    LET ps == pass[s]
    IN (ps.pc = "done" /\ ps.rerun /\ faults = 0 /\ ps.touched = {})
         => /\ ps.writes = 0
            /\ \A k \in DOMAIN ps.log : ps.log[k].outcome = "skipped"

\* the part of C2 that the program keeps: no remote write on the second run
SecondRunWritesNothing ==
  \A s \in Slots :
    LET ps == pass[s]
    IN (ps.pc = "done" /\ ps.rerun /\ ~ps.faulted /\ ps.touched = {}) => ps.writes = 0

\* C6: a document that fails does not stop the loop: a pass that is past its
\* connection and listing steps handles the enumerated documents one by one,
\* ends with one log entry per enumerated document, and does not throw
C6_DocumentFailureIsIsolated ==
  \A s \in Slots :
    LET ps == pass[s]
    IN /\ ps.pc = "done" => /\ Len(ps.log) = Len(ps.files)
                            /\ \A k \in DOMAIN ps.log : ps.log[k].path = ps.files[k]
       /\ ps.pc \in {"detect", "read", "write"} => /\ Len(ps.log) = ps.i
                                                   /\ ps.i < Len(ps.files)
       /\ ps.pc = "thrown" => ps.log = << >>

C6_Witness ==
  \E s \in Slots :
    /\ pass[s].pc = "done"
    /\ Len(pass[s].log) = 2
    /\ pass[s].log[1].outcome = "error"
    /\ pass[s].log[2].outcome = "synced"

\* C7: a pass whose connection test failed has thrown, has processed no
\* document, has issued no remote create, append, delete or archive, and has
\* left its service's fingerprint store and page cache as they were
C7_ConnectFailureChangesNothing ==
  \A s \in Slots :
    LET ps == pass[s]
    IN (ps.pc = "thrown" /\ ps.thrownBy = "connect")
         => /\ ps.log = << >> /\ ps.i = 0 /\ ps.fi = 0
            /\ ps.writes = 0 /\ ps.creates = 0 /\ ps.archives = 0
            /\ Len(pages) = ps.pagesBefore
            /\ ChildPages(RootPageId) = ps.rootKids
            /\ svc[ps.inst] = ps.pre

\* the connection test fails while the store holds the fingerprint of a
\* document that is no longer enumerated
C7_Witness ==
  \E s \in Slots :
    /\ pass[s].pc = "thrown"
    /\ pass[s].thrownBy = "connect"
    /\ \E p \in DocPaths : /\ pass[s].pre.fileHashes[p] # NoEntry
                           /\ p \notin Range(pass[s].files)

\* C8 as stated: a pass throws only when the connection test failed
C8_ThrowsOnlyOnConnectFailure ==
  \A s \in Slots : pass[s].pc = "thrown" => pass[s].thrownBy = "connect"

\* C8, amended: a pass throws only when the connection test failed or, in a
\* full resync, when listing the root's children failed; it throws before any
\* archive, creation or document, and no other failure ends it
C8_ThrowsOnlyOnConnectOrListing ==
  \A s \in Slots :
    LET ps == pass[s]
    IN ps.pc = "thrown"
         => /\ \/ ps.thrownBy = "connect"
               \/ ps.thrownBy = "list" /\ ps.kind = "full"
            /\ ps.archives = 0 /\ ps.creates = 0 /\ ps.log = << >>

C8_Witness ==
  \E s \in Slots : pass[s].pc = "thrown" /\ pass[s].thrownBy = "list"

\* C9: a full resync issues one archive call per child page the root had when
\* the pass started, all of them before any page is created; its page cache is
\* empty when the folder and document steps start, and every document it
\* syncs gets a page created in this pass
C9_ClearBeforeCreate ==
  \A s \in Slots :
    LET ps == pass[s]
    IN ps.kind = "full" =>
         /\ ps.pc \in {"connect", "list", "archive"}
              => ps.creates = 0 /\ Len(pages) = ps.pagesBefore
         /\ ps.pc \in {"archive", "folders", "read", "write", "done"}
              => ps.children = ps.rootKids
         /\ ps.pc = "archive" => ps.archives = ps.ai /\ ps.ai < Len(ps.rootKids)
         /\ ps.pc \in {"folders", "read", "write", "done"}
              => /\ ps.archives = Len(ps.rootKids)
                 /\ ~ps.faulted => \A k \in DOMAIN ps.rootKids :
                                      pages[ps.rootKids[k]].archived
         /\ (ps.pc \in {"folders", "read", "write"} /\ ps.fi = 0 /\ ps.i = 0)
              => svc[ps.inst].pageCache = EmptyCache
         /\ \A k \in DOMAIN ps.log :
              /\ ps.log[k].via # "update"
              /\ ps.log[k].outcome = "synced"
                   => svc[ps.inst].pageCache[ps.log[k].path] > ps.pagesBefore

\* the spec's case: five child pages under the root
C9_Witness ==
  \E s \in Slots :
    /\ pass[s].kind = "full"
    /\ pass[s].pc = "done"
    /\ Len(pass[s].rootKids) = 5
    /\ pass[s].archives = 5
    /\ \E k \in DOMAIN pass[s].log : pass[s].log[k].outcome = "synced"

\* C10: a document whose write had a send fail twice and go through on the
\* third attempt with a halved batch: the send returned, the document is
\* counted as synced and no error is recorded for it
C10_ThirdAttemptIsSuccess ==
  \A s \in Slots :
    \A k \in DOMAIN pass[s].log :
      pass[s].log[k].third => /\ pass[s].log[k].sendOk
                              /\ pass[s].log[k].outcome = "synced"

C10_Witness ==
  \E s \in Slots : \E k \in DOMAIN pass[s].log : pass[s].log[k].third

\* C3 as stated: after a commit, a check of the document with mutated content
\* answers true whatever its modification time is
C3_MutationAlwaysDetected ==
  (probe.op = "check" /\ probe.tracked /\ probe.mutated) => probe.result

\* C3, amended: after a commit, a check of the document with mutated content
\* answers true exactly when the document's modification time is later than
\* the stored lastSync; with an older or equal modification time it answers
\* false without reading the document
C3_MutationDetectedWhenNewer ==
  (probe.op = "check" /\ probe.tracked /\ probe.mutated)
    => (probe.result <=> probe.newer)

C3_Witness ==
  probe.op = "check" /\ probe.tracked /\ probe.mutated /\ probe.newer /\ probe.result

\* C4: a check of a committed document whose content is the committed one
\* answers false, with a modification time older or newer than lastSync
C4_UnchangedAfterCommit ==
  (probe.op = "check" /\ probe.tracked /\ ~probe.mutated) => ~probe.result

\* the content is the committed one and the modification time is newer
C4_Witness ==
  probe.op = "check" /\ probe.tracked /\ ~probe.mutated /\ probe.newer

DeepDoc == "A/B/C/d.md"

InitFolders ==
  /\ \E others \in SUBSET {"n.md", "F/m.md"} :
       vault = [p \in DocPaths |->
                  [exists |-> p = DeepDoc \/ p \in others, content |-> 1, mtime |-> 0]]
  /\ pages \in {<< >>, InitRemote(1), <<NewPage(RootPageId, "a", << >>)>>}
  /\ now = 1
  /\ svc = [k \in Inst |-> [pageCache |-> EmptyCache, fileHashes |-> EmptyTracking]]
  /\ cur = 1
  /\ persisted = EmptyTracking
  /\ pass = [s \in Slots |-> IdlePass]
  /\ faults = 0
  /\ started = 0
  /\ last = NoLast
  /\ dirty = FALSE
  /\ overlap = FALSE
  /\ excludeFolders = {}
  /\ probe = NoProbe

NextFolders ==
  \/ StartSync
  \/ \E p \in DocPaths : StartOnSave(p)
  \/ \E s \in Slots : Connect(s)
  \/ \E s \in Slots : EnsureFolder(s)
  \/ \E s \in Slots : DetectAndRead(s)
  \/ \E s \in Slots : WriteCreate(s)
  \/ \E s \in Slots : Finish(s)
  \/ \E s \in Slots : Caught(s)

SpecFolders == InitFolders /\ [][NextFolders]_vars

\* the folder pages (they carry the folder introduction) a pass created for
\* the folders A, A/B, A/B/C
DeepFolderPages(ps) ==
  {k \in (ps.pagesBefore + 1)..Len(pages) :
     pages[k].blocks = <<FolderIntro>> /\ pages[k].title \in {"A", "B", "C"}}

\* the pass is past ensureFolderStructure
PastFolders(ps) == ps.pc \in {"detect", "read", "write", "done"}

\* C11: a pass over a document in A/B/C that starts with an empty node cache
\* and an empty remote tree, and whose remote calls all succeed, creates
\* exactly three folder pages for that path: A under the root first, then B
\* under A's page, then C under B's page, and caches each under its path.
C11_FoldersCreatedTopDown ==
  \A s \in Slots :
    LET ps == pass[s]
        b == ps.pagesBefore
    IN (/\ PastFolders(ps)
        /\ DeepDoc \in Range(ps.files)
        /\ ps.pre.pageCache = EmptyCache
        /\ ps.rootKids = << >>
        /\ ~ps.faulted)
       => /\ DeepFolderPages(ps) = {b + 1, b + 2, b + 3}
          /\ pages[b + 1].parent = RootPageId /\ pages[b + 1].title = "A"
          /\ pages[b + 2].parent = b + 1 /\ pages[b + 2].title = "B"
          /\ pages[b + 3].parent = b + 2 /\ pages[b + 3].title = "C"
          /\ svc[ps.inst].pageCache["A"] = b + 1
          /\ svc[ps.inst].pageCache["A/B"] = b + 2
          /\ svc[ps.inst].pageCache["A/B/C"] = b + 3

C11_Witness ==
  \E s \in Slots :
    /\ pass[s].pc = "detect"
    /\ pass[s].i = 0
    /\ DeepDoc \in Range(pass[s].files)
    /\ pass[s].pre.pageCache = EmptyCache
    /\ pass[s].rootKids = << >>
    /\ ~pass[s].faulted
    /\ Cardinality(DeepFolderPages(pass[s])) = 3

\* ------------------------------------------------------- overlapping passes
\* C16: no two passes are in flight on the same service instance.
C16_OnePassPerInstance ==
  \A s \in Slots, t \in Slots :
    (s # t /\ Running(s) /\ Running(t)) => pass[s].inst # pass[t].inst

\* the documents whose fingerprint a pass committed
Committed(ps) ==
  {ps.log[k].path : k \in {j \in DOMAIN ps.log : ps.log[j].outcome = "synced"}}

\* C17: when a handler saves the settings after its pass, the saved map holds
\* a fingerprint for every document that pass committed.
C17_SavedMapHoldsCommitted ==
  [][\A s \in Slots :
       (pass[s].pc = "done" /\ pass'[s].pc = "idle")
         => \A p \in Committed(pass[s]) : persisted'[p] # NoEntry]_vars

\* ------------------------------------------------- skipping and writing
\* the detect step of slot s ended its document without an error and without
\* handing it to the write
LeftUnwritten(s) ==
  /\ pass[s].pc = "detect"
  /\ pass'[s].pc # "write"
  /\ Len(pass'[s].log) = Len(pass[s].log) + 1
  /\ pass'[s].log[Len(pass'[s].log)].outcome # "error"

\* C18: an incremental pass leaves a document unwritten only if the tracker
\* reports no change for it and a page is cached for its path.
C18_SkipOnlyUnchangedCached ==
  [][\A s \in Slots :
       LeftUnwritten(s) =>
         LET p == CurrentFile(pass[s])
             sv == svc[pass[s].inst]
         IN /\ sv.pageCache[p] # 0
            /\ ~hasFileChanged(sv.fileHashes, p, vault[p].mtime, vault[p].content)]_vars

\* the write step of slot s ended with every send of the document's batches
\* returned (no batch exhausted) on a page that exists
SendsReturned(s) ==
  /\ pass[s].pc = "write"
  /\ Len(pass'[s].log) = Len(pass[s].log) + 1
  /\ pass'[s].log[Len(pass'[s].log)].sendOk
  /\ pass'[s].log[Len(pass'[s].log)].via \in {"update", "create"}
  /\ svc'[pass[s].inst].pageCache[CurrentFile(pass[s])] # 0

\* C19: when every send of a document's batches returned success, the page
\* holds every block of every batch, in order.
C19_SuccessMeansAllWritten ==
  [][\A s \in Slots :
       SendsReturned(s) =>
         LET id == svc'[pass[s].inst].pageCache[CurrentFile(pass[s])]
         IN \E conv \in {"parse", "enhanced", "utils"} :
              pages'[id].blocks = Converted(conv, pass[s].content)]_vars

\* the write step of slot s ended after a batch of the document exhausted its
\* retries
Exhausted(s) ==
  /\ pass[s].pc = "write"
  /\ Len(pass'[s].log) = Len(pass[s].log) + 1
  /\ ~pass'[s].log[Len(pass'[s].log)].sendOk

\* C20: a document with a batch whose retries were exhausted is counted as
\* failed, its fingerprint stays as it was, and the pass goes on.
C20_ExhaustedMeansFailed ==
  [][\A s \in Slots :
       Exhausted(s) =>
         LET p == CurrentFile(pass[s])
         IN /\ pass'[s].log[Len(pass'[s].log)].outcome = "error"
            /\ svc'[pass[s].inst].fileHashes[p] = svc[pass[s].inst].fileHashes[p]
            /\ pass'[s].pc # "thrown"]_vars

\* the write step of slot s ended with the document counted as synced
Synced(s) ==
  /\ pass[s].pc = "write"
  /\ Len(pass'[s].log) = Len(pass[s].log) + 1
  /\ pass'[s].log[Len(pass'[s].log)].outcome = "synced"

\* C21: the fingerprint committed at the end of a document's upsert is the
\* hash of the content the pass read and wrote.
C21_CommitsWhatWasWritten ==
  [][\A s \in Slots :
       Synced(s) =>
         svc'[pass[s].inst].fileHashes[CurrentFile(pass[s])].hash
           = calculateFileHash(pass[s].content)]_vars

\* ------------------------------------------------- updating a long page
\* the vault holds one long document (120 blocks); the handlers may overlap
InitLong ==
  /\ vault = [InitVault EXCEPT !["n.md"].content = 3]
  /\ now = 1
  /\ pages = << >>
  /\ svc = [k \in Inst |-> [pageCache |-> EmptyCache, fileHashes |-> EmptyTracking]]
  /\ cur = 1
  /\ persisted = EmptyTracking
  /\ pass = [s \in Slots |-> IdlePass]
  /\ faults = 0
  /\ started = 0
  /\ last = NoLast
  /\ dirty = FALSE
  /\ overlap = TRUE
  /\ excludeFolders = {}
  /\ probe = NoProbe

\* the overlapping handlers with no local edit
NextLong ==
  \/ StartSync
  \/ \E p \in DocPaths : StartOnSave(p)
  \/ \E s \in Slots : Connect(s)
  \/ \E s \in Slots : EnsureFolder(s)
  \/ \E s \in Slots : DetectAndRead(s)
  \/ \E s \in Slots : WriteUpdate(s)
  \/ \E s \in Slots : WriteCreate(s)
  \/ \E s \in Slots : Finish(s)
  \/ \E s \in Slots : Caught(s)

SpecLong == InitLong /\ [][NextLong]_vars

\* C22: after an update in which no call failed, the page holds exactly the
\* blocks converted from the content the pass read.
C22_UpdateReplacesAllBlocks ==
  [][\A s \in Slots :
       (/\ Synced(s)
        /\ pass'[s].log[Len(pass'[s].log)].via = "update"
        /\ faults' = faults)
         => LET id == svc[pass[s].inst].pageCache[CurrentFile(pass[s])]
            IN pages'[id].blocks = Converted("enhanced", pass[s].content)]_vars

\* ------------------------------------------------------ size of a request
\* The long document under all three write paths: the handlers of SpecLong and
\* the full resync.
NextWrites ==
  \/ StartSync
  \/ StartFull
  \/ \E p \in DocPaths : StartOnSave(p)
  \/ \E s \in Slots : Connect(s)
  \/ \E s \in Slots : ListRootChildren(s)
  \/ \E s \in Slots : ArchiveNext(s)
  \/ \E s \in Slots : EnsureFolder(s)
  \/ \E s \in Slots : DetectAndRead(s)
  \/ \E s \in Slots : ReadForFull(s)
  \/ \E s \in Slots : WriteUpdate(s)
  \/ \E s \in Slots : WriteCreate(s)
  \/ \E s \in Slots : WriteFull(s)
  \/ \E s \in Slots : Finish(s)
  \/ \E s \in Slots : Caught(s)

SpecWrites == InitLong /\ [][NextWrites]_vars

\* C31: no request of a pass (a page create with its initial children, a
\* block append, first attempt or retry) carries more than 40 blocks, however
\* many blocks the document converts to.
C31_RequestsWithinForty ==
  \A s \in Slots : pass[s].largest <= 40

\* a pass wrote the 120-block document through path `via`
WroteLong(s, via) ==
  \E k \in 1..Len(pass[s].log) :
     /\ pass[s].log[k].via = via
     /\ pass[s].log[k].outcome = "synced"
     /\ pass[s].log[k].path = "n.md"

C31_Witness ==
  /\ BlockCount(vault["n.md"].content) > 40
  /\ \E s \in Slots : WroteLong(s, "update") /\ pass[s].largest = 40

\* ------------------------------------------- the tracker's unread answer
\* C33: for a document with a stored fingerprint whose modification time is
\* not newer than the stored lastSync, hasFileChanged answers false, does not
\* read the document, and leaves the fingerprint store as it was.
C33_OldMtimeUnreadUnchanged ==
  /\ []((probe.op = "check" /\ probe.tracked /\ ~probe.newer)
          => (~probe.result /\ ~probe.read))
  /\ [][(probe'.op = "check" /\ probe' # probe /\ probe'.tracked /\ ~probe'.newer)
          => svc' = svc]_vars

\* a restored version with other content and an older modification time is
\* answered without a read
C33_Witness ==
  /\ probe.op = "check" /\ probe.tracked /\ ~probe.newer /\ probe.mutated
  /\ ~probe.read /\ ~probe.result

\* --------------------------------------- a read that fails in the tracker
\* C34: a read that fails while hasFileChanged evaluates a document is
\* answered as "changed": the document is not given up at the detection step
\* (no error is logged for it there), it goes on to be read and written.
C34_TrackerReadFailsOpen ==
  [][\A s \in Slots :
       (/\ pass[s].pc = "detect"
        /\ Len(pass'[s].log) = Len(pass[s].log) + 1)
         => LET e == pass'[s].log[Len(pass'[s].log)]
            IN ~(e.outcome = "error" /\ e.via = "detect")]_vars

\* ------------------------------------------------- references and the cache
\* the document a reference names: the one whose name, or whose path without
\* .md, is the target ("" when there is none)
TargetDoc(target) ==
  IF \E d \in DocPaths : NameOf(d) = target \/ BaseName(d) = target
  THEN CHOOSE d \in DocPaths : NameOf(d) = target \/ BaseName(d) = target
  ELSE ""

\* the document of slot s has been read and its references replaced
LinksProcessed(s) ==
  /\ pass[s].pc \in {"detect", "read"}
  /\ pass'[s].pc = "write"

\* C39: when a document is converted, each of its references whose target
\* document has a cache entry at that moment becomes a link to that page, and
\* every other reference becomes its label text.
C39_LinksFollowCache ==
  [][\A s \in Slots :
       LinksProcessed(s) =>
         LET refs == Refs(CurrentFile(pass[s]))
             cache == svc[pass[s].inst].pageCache
         IN \A k \in DOMAIN refs :
              LET d == TargetDoc(refs[k].target)
                  out == pass'[s].links[k]
                  label == IF refs[k].label # "" THEN refs[k].label ELSE refs[k].target
              IN IF d # "" /\ cache[d] # 0
                 THEN out = [kind |-> "link", text |-> label, id |-> cache[d]]
                 ELSE out = [kind |-> "text", text |-> label, id |-> 0]]_vars

\* -------------------------------------------- the cache between two passes
\* C32: when the command's incremental pass has returned and the handler has
\* saved the settings, every cache entry the pass created is in the cache of
\* the service the plugin refers to, which is the one the next pass starts on.
C32_CacheKeptAfterCommandPass ==
  [][(/\ pass["cmd"].pc = "done"
      /\ pass["cmd"].kind = "inc"
      /\ pass'["cmd"].pc = "idle")
       => \A k \in CacheKeys :
            (/\ pass["cmd"].pre.pageCache[k] = 0
             /\ svc[pass["cmd"].inst].pageCache[k] # 0)
              => svc'[cur'].pageCache[k] = svc[pass["cmd"].inst].pageCache[k]]_vars

\* ------------------------------------------------- the on-save pass's frame
\* C23: while the on-save pass runs, the fingerprint of every other document
\* that exists in the vault stays as it was.
C23_OnSaveKeepsOtherFingerprints ==
  [][Running("save") =>
       \A q \in DocPaths :
         (vault[q].exists /\ q \notin Range(pass["save"].files))
           => svc'[pass["save"].inst].fileHashes[q]
                = svc[pass["save"].inst].fileHashes[q]]_vars

\* ------------------------------------------------- folders that exist remotely
\* the folder step of slot s created a page
FolderCreated(s) ==
  /\ pass[s].pc = "folders"
  /\ Len(pages') = Len(pages) + 1

\* C24: a folder page is created only when the page it is created under has
\* no child page whose title matches the folder's name, case-insensitively.
C24_NoFolderDuplicated ==
  [][\A s \in Slots :
       FolderCreated(s) =>
         LET made == pages'[Len(pages')]
         IN FirstWithTitle(ChildPages(made.parent), made.title) = 0]_vars

\* ------------------------------------------------- titles that collide
\* The vault holds the folder F (with F/m.md) and, next to it, the document
\* F.md: both have the title F under the root.
InitTitles ==
  /\ vault = [p \in DocPaths |->
                [exists |-> p \in {"F.md", "F/m.md"}, content |-> 1, mtime |-> 0]]
  /\ now = 1
  /\ pages = << >>
  /\ svc = [k \in Inst |-> [pageCache |-> EmptyCache, fileHashes |-> EmptyTracking]]
  /\ cur = 1
  /\ persisted = EmptyTracking
  /\ pass = [s \in Slots |-> IdlePass]
  /\ faults = 0
  /\ started = 0
  /\ last = NoLast
  /\ dirty = FALSE
  /\ overlap = FALSE
  /\ excludeFolders = {}
  /\ probe = NoProbe

SpecTitles == InitTitles /\ [][NextFolders]_vars

\* C25: no service instance's page cache maps two local paths to one page.
C25_CacheInjective ==
  \A k \in Inst : \A a \in CacheKeys, b \in CacheKeys :
     (a # b /\ svc[k].pageCache[a] # 0) => svc[k].pageCache[a] # svc[k].pageCache[b]

\* ------------------------------------------------- one page per document
\* the write step of an incremental pass in slot s created a page
DocCreated(s) ==
  /\ pass[s].pc = "write"
  /\ pass[s].kind = "inc"
  /\ Len(pages') = Len(pages) + 1

\* C26: an incremental pass creates a page for a document only when the
\* document's parent page has no child page with the document's title.
C26_NoDocumentDuplicated ==
  [][\A s \in Slots :
       DocCreated(s) =>
         LET made == pages'[Len(pages')]
         IN FirstWithTitle(ChildPages(made.parent), made.title) = 0]_vars

\* ------------------------------------------------- the order of the folders
\* C27: in the folder list of a pass every folder with a parent folder comes
\* after that parent, and when the folder's turn comes in a pass with no
\* failed call the parent has a cached page.
C27_ParentsProcessedFirst ==
  \A s \in Slots :
    LET ps == pass[s]
    IN /\ \A k \in DOMAIN ps.folders :
            ParentOf(ps.folders[k]) # ""
              => \E j \in 1..(k - 1) : ps.folders[j] = ParentOf(ps.folders[k])
       /\ (/\ ps.pc = "folders"
           /\ ~ps.faulted
           /\ ParentOf(ps.folders[ps.fi + 1]) # "")
            => svc[ps.inst].pageCache[ParentOf(ps.folders[ps.fi + 1])] # 0

\* the pass is about to ensure A/B/C, third in its list, with A/B cached
C27_Witness ==
  \E s \in Slots :
    /\ pass[s].pc = "folders"
    /\ pass[s].fi = 2
    /\ pass[s].folders[3] = "A/B/C"
    /\ ~pass[s].faulted
    /\ svc[pass[s].inst].pageCache["A/B"] # 0

\* ------------------------------------------------- a folder without its parent
\* the folder step of slot s handled a folder whose parent folder has no
\* cached page, and the page creation of the step, if any, went through
OrphanHandled(s) ==
  /\ pass[s].pc = "folders"
  /\ pass'[s].fi = pass[s].fi + 1
  /\ ParentOf(pass[s].folders[pass[s].fi + 1]) # ""
  /\ svc[pass[s].inst].pageCache[ParentOf(pass[s].folders[pass[s].fi + 1])] = 0
  /\ (faults' = faults \/ Len(pages') = Len(pages) + 1)

MaxBatch == 40

ShrinkAbove(wrapper) ==
  IF wrapper = "retry" THEN RETRY_SHRINK_ABOVE ELSE SAFE_SHRINK_ABOVE

\* NextSize that halves every batch of more than one block
NextSize_halveToOne(size, above) == IF size > 1 THEN size \div 2 ELSE size

\* blocks = blocks.slice(0, blocks.length / 2) when blocks.length > above
NextSize(size, above) == IF size > above THEN size \div 2 ELSE size

\* exhausted that gives up one failure later
exhausted_oneLater(retryCount) == retryCount > MAX_RETRIES

\* if (retryCount >= MAX_RETRIES) throw error
exhausted(retryCount) == retryCount >= MAX_RETRIES

InitRetry ==
  /\ \E n \in 1..MaxBatch, w \in {"retry", "safely"} :
       probe = [op |-> "send", wrapper |-> w, n |-> n, size |-> n, prev |-> 0,
                retryCount |-> 0, pc |-> "trying", sent |-> 0]
  /\ vault = InitVault
  /\ now = 1
  /\ pages = << >>
  /\ svc = [k \in Inst |-> [pageCache |-> EmptyCache, fileHashes |-> EmptyTracking]]
  /\ cur = 1
  /\ persisted = EmptyTracking
  /\ pass = [s \in Slots |-> IdlePass]
  /\ faults = 0
  /\ started = 0
  /\ last = NoLast
  /\ dirty = FALSE
  /\ overlap = FALSE
  /\ excludeFolders = {}

\* the request answers 200: return
AttemptSucceeds ==
  /\ probe.pc = "trying"
  /\ probe' = [probe EXCEPT !.pc = "returned", !.sent = probe.size]
  /\ UNCHANGED <<vault, now, pages, svc, cur, persisted, pass, faults, started, last,
                 dirty, overlap, excludeFolders>>

\* the request throws or answers another status: the catch block, then the
\* loop's test
AttemptFails ==
  /\ probe.pc = "trying"
  /\ LET rc == probe.retryCount + 1
     IN probe' =
          IF exhausted(rc)
          THEN [probe EXCEPT !.retryCount = rc, !.prev = probe.size, !.pc = "thrown"]
          ELSE [probe EXCEPT !.retryCount = rc, !.prev = probe.size,
                             !.size = NextSize(probe.size, ShrinkAbove(probe.wrapper)),
                             !.pc = IF rc < MAX_RETRIES THEN "trying" ELSE "returned"]
  /\ UNCHANGED <<vault, now, pages, svc, cur, persisted, pass, faults, started, last,
                 dirty, overlap, excludeFolders>>

NextRetry == AttemptSucceeds \/ AttemptFails

SpecRetry == InitRetry /\ [][NextRetry]_vars

\* every request is answered, one way or the other
SpecRetryFair == SpecRetry /\ WF_vars(NextRetry)

\* the attempts, taken one by one, give what retryResult gives for the call
StepsAgreeWithRetryResult ==
  LET above == ShrinkAbove(probe.wrapper)
  IN /\ probe.pc = "returned" =>
          /\ retryResult(probe.n, probe.retryCount, above).ok
          /\ retryResult(probe.n, probe.retryCount, above).written = probe.sent
     /\ probe.pc = "thrown" => ~retryResult(probe.n, probe.retryCount, above).ok

\* an attempt failed and another one follows
Retrying == probe.pc = "trying" /\ probe.retryCount > 0

\* C29 as stated: the batch of the next attempt is half the batch just tried,
\* not below one block, and a failed batch of one block is not retried.
C29_HalvedDownToOne ==
  /\ Retrying => probe.size = (IF probe.prev > 1 THEN probe.prev \div 2 ELSE 1)
  /\ (probe.retryCount > 0 /\ probe.prev = 1) => probe.pc = "thrown"

\* C29 as amended: the next batch is the first half (rounded down) of a batch
\* of more than 10 blocks (5 in appendBlocksSafely) and the same batch
\* otherwise; it never has fewer than 3 blocks unless the call started with
\* fewer; and a failed batch of any size is retried until the third failure.
C29_HalvedAboveThreshold ==
  LET limit == IF probe.wrapper = "retry" THEN 10 ELSE 5
  IN /\ Retrying =>
          /\ probe.prev > limit => probe.size = probe.prev \div 2
          /\ probe.prev <= limit => probe.size = probe.prev
          /\ probe.size >= 3 \/ probe.size = probe.n
     /\ probe.pc = "thrown" <=> probe.retryCount = 3

\* a batch of 11 blocks failed in appendBlocksWithRetry and 5 are tried next;
\* a batch of 10 would be tried again whole
C29_Witness ==
  /\ Retrying
  /\ probe.wrapper = "retry"
  /\ probe.prev = 11
  /\ probe.size = 5

\* requests issued so far by the call
Attempts == probe.retryCount + (IF probe.pc = "returned" THEN 1 ELSE 0)

\* C30: a call issues at most three requests and ends: it returns right after
\* the first request that went through, having sent that batch, and it throws
\* exactly when three requests in a row have failed.
C30_ThreeAttemptsThenEnds ==
  /\ [](/\ Attempts <= 3
        /\ probe.pc = "returned" => (probe.sent = probe.size /\ probe.sent >= 1)
        /\ probe.pc = "trying" => (probe.retryCount < 3 /\ probe.sent = 0)
        /\ probe.pc = "thrown" <=> (probe.retryCount = 3 /\ probe.sent = 0))
  /\ <>(probe.pc \in {"returned", "thrown"})

\* appendBlocksSafely gave up after its third failed request
C30_Witness ==
  /\ probe.op = "send"
  /\ probe.wrapper = "safely"
  /\ probe.pc = "thrown"
  /\ probe.retryCount = 3

\* ---------------------------------------------------------- excluded folders
\* entries settings.excludeFolders may hold: folders, a nested folder, a
\* document's own path, and entries that are a prefix of a path's characters
\* without ending at a "/"
ExcludeEntries ==
  {<<"F">>, <<"A">>, <<"A", "/", "B">>, <<"n", ".md">>, <<"n">>, <<"F", "/", "m">>,
   <<"A", "/">>}

\* The plugin, its handlers one after the other, with n.md, F/m.md and the
\* deep document present
\* and excludeFolders holding no entry, one entry, or the entries "n" and "F".
InitExclude ==
  /\ vault = [p \in DocPaths |-> [exists |-> p # "F.md", content |-> 1, mtime |-> 0]]
  /\ pages = << >>
  /\ now = 1
  /\ svc = [k \in Inst |-> [pageCache |-> EmptyCache, fileHashes |-> EmptyTracking]]
  /\ cur = 1
  /\ persisted = EmptyTracking
  /\ pass = [s \in Slots |-> IdlePass]
  /\ faults = 0
  /\ started = 0
  /\ last = NoLast
  /\ dirty = FALSE
  /\ overlap = FALSE
  /\ excludeFolders \in {{}} \cup {{e} : e \in ExcludeEntries} \cup {{<<"n">>, <<"F">>}}
  /\ probe = NoProbe

SpecExclude == InitExclude /\ [][NextFolders]_vars

\* the claim's test, on the characters of a path: the path is an entry, or an
\* entry ends right before one of the path's "/"
ExcludedPath(p) ==
  \E e \in excludeFolders :
     \/ Chars(p) = e
     \/ /\ Len(Chars(p)) > Len(e)
        /\ SubSeq(Chars(p), 1, Len(e)) = e
        /\ Chars(p)[Len(e) + 1] = "/"

\* C15: a pass never holds an excluded document, and the sync command's pass
\* holds every document that is not excluded (the vault's documents stay in
\* place in these behaviours).
C15_ExcludedExactly ==
  \A s \in Slots :
    Running(s) =>
      /\ \A p \in Range(pass[s].files) : ~ExcludedPath(p)
      /\ s = "cmd" => Range(pass[s].files)
                         = {p \in DocPaths : vault[p].exists /\ ~ExcludedPath(p)}

\* with the entries "n" and "F": n.md, which only starts with "n", is synced by
\* the command and by the on-save handler, and F/m.md by neither
C15_Witness ==
  /\ excludeFolders = {<<"n">>, <<"F">>}
  /\ pass["cmd"].pc = "done"
  /\ Range(pass["cmd"].files) = {"n.md", "A/B/C/d.md"}
  /\ last.done /\ last.kind = "inc" /\ last.files = <<"n.md">>

\* --------------------------------------------- markdown and its converters
\* A markdown text is a sequence of lines.  A line is what the converters'
\* tests see of it: k, the class their startsWith and regex tests put it in
\* ("h1": starts with "# "; "fence": starts with three backquotes; "bullet";
\* "numbered"; "rule": three or more of - _ *; "blank": trim() is empty;
\* "text": any other); t, the line after its marker; n, the number of
\* characters of t.  The texts carry no frontmatter, no [[link]], no
\* backslash and no quote.
Line(k, t, n) == [k |-> k, t |-> t, n |-> n]

BlankLine == Line("blank", "", 0)

MarkerLen(k) ==
  CASE k = "h1" -> 2
    [] k = "bullet" -> 2
    [] k = "numbered" -> 3
    [] k = "fence" -> 3
    [] OTHER -> 0

\* the characters of a whole line
RawLen(l) == MarkerLen(l.k) + l.n

RECURSIVE SumRaw(_)
SumRaw(ls) == IF ls = << >> THEN 0 ELSE RawLen(Head(ls)) + SumRaw(Tail(ls))

\* length of lines joined by "\n"
TextLen(ls) == IF ls = << >> THEN 0 ELSE SumRaw(ls) + Len(ls) - 1

\* line.substring(marker length): the line as a block's text
Stripped(l) == Line("text", l.t, l.n)

\* a content block: its type, the lines of its text, a code block's language
Block(type, text, language) == [type |-> type, text |-> text, language |-> language]

BlockLen(b) == TextLen(b.text)

\* String.prototype.trim on lines joined by "\n" (and a trailing "\n")
RECURSIVE TrimLeft(_)
TrimLeft(ls) == IF ls # << >> /\ Head(ls).k = "blank" THEN TrimLeft(Tail(ls)) ELSE ls

RECURSIVE TrimRight(_)
TrimRight(ls) ==
  IF ls # << >> /\ ls[Len(ls)].k = "blank"
  THEN TrimRight(SubSeq(ls, 1, Len(ls) - 1))
  ELSE ls

Trim(ls) == TrimRight(TrimLeft(ls))

\* first index from i on of a line that starts with three backquotes
RECURSIVE NextFence(_, _)
NextFence(ls, i) ==
  IF i > Len(ls) \/ ls[i].k = "fence" THEN i ELSE NextFence(ls, i + 1)

\* the paragraph loops go on over lines that are not blank and start neither
\* with "#", nor with backquotes, nor as a list item
RECURSIVE ParaEnd(_, _)
ParaEnd(ls, i) ==
  IF i > Len(ls) \/ ls[i].k \notin {"text", "rule"} THEN i ELSE ParaEnd(ls, i + 1)

\* the entries of supportedLanguages the documents here can name
SupportedLanguages == {"plain text", "python"}

\* language || "plain text"
PlainOr(info) == IF info = "" THEN "plain text" ELSE info

\* parseMarkdownToBlocks (create path)
RECURSIVE parseFrom(_, _)
parseFrom(ls, i) ==
  IF i > Len(ls) THEN << >>
  ELSE LET l == ls[i]
       IN CASE l.k = "fence" ->
                 LET j == NextFence(ls, i + 1)
                 IN <<Block("code", SubSeq(ls, i + 1, j - 1), PlainOr(l.t))>>
                      \o parseFrom(ls, j + 1)
            [] l.k = "h1" ->
                 <<Block("heading_1", <<Stripped(l)>>, "")>> \o parseFrom(ls, i + 1)
            [] l.k = "bullet" ->
                 <<Block("bulleted_list_item", <<Stripped(l)>>, "")>> \o parseFrom(ls, i + 1)
            [] l.k = "numbered" ->
                 <<Block("numbered_list_item", <<Stripped(l)>>, "")>> \o parseFrom(ls, i + 1)
            [] l.k = "rule" ->
                 <<Block("divider", << >>, "")>> \o parseFrom(ls, i + 1)
            [] l.k = "blank" -> parseFrom(ls, i + 1)
            [] OTHER ->
                 LET j == ParaEnd(ls, i + 1)
                 IN <<Block("paragraph", SubSeq(ls, i, j - 1), "")>> \o parseFrom(ls, j)

parseMarkdownToBlocks(ls) == parseFrom(ls, 1)

createOptimizedCodeBlock(content, language) ==
  Block("code", Trim(content),
        IF language \in SupportedLanguages THEN language ELSE "plain text")

\* convertMarkdownToEnhancedBlocks (update path).  A line that is none of the
\* marked kinds opens a paragraph, a blank one too; when the paragraph turns
\* out empty the index is advanced once more.
RECURSIVE convertFrom(_, _)
convertFrom(ls, i) ==
  IF i > Len(ls) THEN << >>
  ELSE LET l == ls[i]
       IN CASE l.k = "fence" ->
                 LET j == NextFence(ls, i + 1)
                 IN <<createOptimizedCodeBlock(SubSeq(ls, i + 1, j - 1), PlainOr(l.t))>>
                      \o convertFrom(ls, IF j <= Len(ls) THEN j + 1 ELSE j)
            [] l.k = "h1" ->
                 <<Block("heading_1", <<Stripped(l)>>, "")>> \o convertFrom(ls, i + 1)
            [] l.k = "bullet" ->
                 <<Block("bulleted_list_item", <<Stripped(l)>>, "")>> \o convertFrom(ls, i + 1)
            [] l.k = "numbered" ->
                 <<Block("numbered_list_item", <<Stripped(l)>>, "")>> \o convertFrom(ls, i + 1)
            [] l.k = "rule" ->
                 <<Block("divider", << >>, "")>> \o convertFrom(ls, i + 1)
            [] OTHER ->
                 LET j == ParaEnd(ls, i + 1)
                     para == SubSeq(ls, i, j - 1)
                 IN IF Trim(para) # << >>
                    THEN <<Block("paragraph", para, "")>> \o convertFrom(ls, j)
                    ELSE convertFrom(ls, j + 1)

convertMarkdownToEnhancedBlocks(ls) == convertFrom(ls, 1)

createCodeBlock(content, language) ==
  Block("code", Trim(content),
        IF language \in SupportedLanguages THEN language ELSE "plain text")

\* markdownToNotionBlocks (notion-utils): one scan with the paragraph
\* accumulator, the in-code flag, the code accumulator and its language.
\* It has no case for a rule: "---" is paragraph text.
RECURSIVE mdFrom(_, _, _, _, _, _)
mdFrom(ls, i, para, inCode, code, lang) ==
  LET flush == IF para # << >> THEN <<Block("paragraph", para, "")>> ELSE << >>
  IN IF i > Len(ls)
     THEN (IF inCode /\ code # << >> THEN <<createCodeBlock(code, lang)>> ELSE << >>)
            \o flush
     ELSE LET l == ls[i]
          IN CASE l.k = "fence" /\ ~inCode ->
                    flush \o mdFrom(ls, i + 1, << >>, TRUE, << >>, l.t)
               [] l.k = "fence" /\ inCode ->
                    <<createCodeBlock(code, lang)>>
                      \o mdFrom(ls, i + 1, para, FALSE, << >>, "")
               [] l.k # "fence" /\ inCode ->
                    mdFrom(ls, i + 1, para, TRUE, Append(code, l), lang)
               [] l.k = "h1" /\ ~inCode ->
                    flush \o <<Block("heading_1", <<Stripped(l)>>, "")>>
                      \o mdFrom(ls, i + 1, << >>, FALSE, code, lang)
               [] l.k = "bullet" /\ ~inCode ->
                    flush \o <<Block("bulleted_list_item", <<Stripped(l)>>, "")>>
                      \o mdFrom(ls, i + 1, << >>, FALSE, code, lang)
               [] l.k = "numbered" /\ ~inCode ->
                    flush \o <<Block("numbered_list_item", <<Stripped(l)>>, "")>>
                      \o mdFrom(ls, i + 1, << >>, FALSE, code, lang)
               [] l.k = "blank" /\ ~inCode ->
                    flush \o mdFrom(ls, i + 1, << >>, FALSE, code, lang)
               [] OTHER ->
                    mdFrom(ls, i + 1, Append(para, l), FALSE, code, lang)

markdownToNotionBlocks(ls) == mdFrom(ls, 1, << >>, FALSE, << >>, "")

MAX_PARAGRAPH_LENGTH == 1900
SANITIZE_ABOVE == 1900
TEXT_LIMIT == 2000

\* sanitizeContent: the replace of [\u0000-\u001F\u007F-\u009F] takes every
\* line break out of the text, which leaves one line: it starts as the first
\* line that is not empty does and goes on with the characters of all the
\* others.  No "\n\n" is left to split at; the one paragraph is cut to
\* MAX_PARAGRAPH_LENGTH characters and "..." when it is longer.
sanitizeContent(ls) ==
  LET full == SelectSeq(ls, LAMBDA l : RawLen(l) > 0)
      total == SumRaw(ls)
      kept == IF total > MAX_PARAGRAPH_LENGTH THEN MAX_PARAGRAPH_LENGTH + 3 ELSE total
  IN IF full = << >> THEN <<BlankLine>>
     ELSE IF Len(full) = 1 /\ total <= MAX_PARAGRAPH_LENGTH THEN full
     ELSE LET kind == IF full[1].k \in {"h1", "bullet", "numbered", "fence"}
                      THEN full[1].k ELSE "text"
          IN <<Line(kind, IF Len(full) = 1 THEN "(cut)" ELSE "(joined)",
                    kept - MarkerLen(kind))>>

\* sanitizeBlocks: a code text or a paragraph text longer than SANITIZE_ABOVE
\* is cut to that length and a suffix: "\n\n... (conteudo truncado)", 25
\* characters, for code, "...", 3 characters, for a paragraph
sanitizeBlock(b) ==
  IF b.type = "code" /\ BlockLen(b) > SANITIZE_ABOVE
  THEN [b EXCEPT !.text = <<Line("text", "(cut)", SANITIZE_ABOVE + 25)>>]
  ELSE IF b.type = "paragraph" /\ BlockLen(b) > SANITIZE_ABOVE
       THEN [b EXCEPT !.text = <<Line("text", "(cut)", SANITIZE_ABOVE + 3)>>]
       ELSE b

sanitizeBlocks(blocks) == [k \in DOMAIN blocks |-> sanitizeBlock(blocks[k])]

\* enhancedMarkdownToNotionBlocks (full-resync path).  The map that splits a
\* code text longer than 1800 characters never applies: a code block needs a
\* closing fence or a code line, and the text has one line.
enhancedMarkdownToNotionBlocks(ls) ==
  sanitizeBlocks(markdownToNotionBlocks(sanitizeContent(ls)))

\* ------------------------------------------------ the converters by themselves
LongLen == 2001     \* characters of a long line
MaxElems == 3       \* structural elements of a document

\* the structural elements documents are made of, each with its lines
ElemLines(e) ==
  CASE e = "heading" -> <<Line("h1", "Title", 5)>>
    [] e = "longHeading" -> <<Line("h1", "LongTitle", LongLen)>>
    [] e = "paragraph" -> <<Line("text", "Hello", 5)>>
    [] e = "longParagraph" -> <<Line("text", "LongText", LongLen)>>
    [] e = "bullet" -> <<Line("bullet", "item", 4)>>
    [] e = "numbered" -> <<Line("numbered", "step", 4)>>
    [] e = "code" -> <<Line("fence", "py", 2), Line("text", "print(1)", 8),
                       Line("fence", "", 0)>>
    [] OTHER -> <<Line("rule", "---", 3)>>

Elems == {"heading", "longHeading", "paragraph", "longParagraph", "bullet",
          "numbered", "code", "divider"}

ElemSeqs == UNION {[1..k -> Elems] : k \in 1..MaxElems}

\* the elements' lines, a blank line between two elements
RECURSIVE DocLines(_)
DocLines(es) ==
  IF es = << >> THEN << >>
  ELSE ElemLines(Head(es))
         \o (IF Len(es) > 1 THEN <<BlankLine>> \o DocLines(Tail(es)) ELSE << >>)

InitConvert ==
  /\ vault = InitVault
  /\ now = 1
  /\ pages = InitRemote(InitPages)
  /\ svc = [k \in Inst |-> [pageCache |-> EmptyCache, fileHashes |-> EmptyTracking]]
  /\ cur = 1
  /\ persisted = EmptyTracking
  /\ pass = [s \in Slots |-> IdlePass]
  /\ faults = 0
  /\ started = 0
  /\ last = NoLast
  /\ dirty = FALSE
  /\ overlap = FALSE
  /\ excludeFolders = {}
  /\ \E es \in ElemSeqs :
       probe = [op |-> "document", conv |-> "none", elems |-> es, blocks |-> << >>]

\* createFormattedNotionPage: const blocks = this.parseMarkdownToBlocks(...)
ConvertParse ==
  /\ probe.op = "document"
  /\ probe' = [probe EXCEPT !.op = "converted", !.conv = "parse",
                            !.blocks = parseMarkdownToBlocks(DocLines(probe.elems))]
  /\ UNCHANGED <<vault, now, pages, svc, cur, persisted, pass, faults, started, last,
                 dirty, overlap, excludeFolders>>

\* syncFilesToNotion, update path: convertMarkdownToEnhancedBlocks(...)
ConvertEnhanced ==
  /\ probe.op = "document"
  /\ probe' = [probe EXCEPT !.op = "converted", !.conv = "enhanced",
                            !.blocks = convertMarkdownToEnhancedBlocks(DocLines(probe.elems))]
  /\ UNCHANGED <<vault, now, pages, svc, cur, persisted, pass, faults, started, last,
                 dirty, overlap, excludeFolders>>

\* createNotionPageRobust: enhancedMarkdownToNotionBlocks(content)
ConvertUtils ==
  /\ probe.op = "document"
  /\ probe' = [probe EXCEPT !.op = "converted", !.conv = "utils",
                            !.blocks = enhancedMarkdownToNotionBlocks(DocLines(probe.elems))]
  /\ UNCHANGED <<vault, now, pages, svc, cur, persisted, pass, faults, started, last,
                 dirty, overlap, excludeFolders>>

\* the earlier service: markdownToNotionBlocks(processedContent)
ConvertMarkdown ==
  /\ probe.op = "document"
  /\ probe' = [probe EXCEPT !.op = "converted", !.conv = "markdown",
                            !.blocks = markdownToNotionBlocks(DocLines(probe.elems))]
  /\ UNCHANGED <<vault, now, pages, svc, cur, persisted, pass, faults, started, last,
                 dirty, overlap, excludeFolders>>

NextConvert ==
  \/ ConvertParse
  \/ ConvertEnhanced
  \/ ConvertUtils
  \/ ConvertMarkdown

SpecConvert == InitConvert /\ [][NextConvert]_vars

\* C12: every block a converter of the three sync paths makes has a text of
\* at most TEXT_LIMIT characters.
C12_BlockTextWithinLimit ==
  (probe.op = "converted" /\ probe.conv \in {"parse", "enhanced", "utils"})
    => \A k \in DOMAIN probe.blocks : BlockLen(probe.blocks[k]) <= TEXT_LIMIT

\* the full-resync converter alone keeps the limit
FullPathWithinLimit ==
  (probe.op = "converted" /\ probe.conv = "utils")
    => \A k \in DOMAIN probe.blocks : BlockLen(probe.blocks[k]) <= TEXT_LIMIT

\* the block an element of a document stands for: its type and its text
ExpectedOf(e) ==
  CASE e = "heading" -> [type |-> "heading_1", text |-> <<Line("text", "Title", 5)>>]
    [] e = "longHeading" ->
         [type |-> "heading_1", text |-> <<Line("text", "LongTitle", LongLen)>>]
    [] e = "paragraph" -> [type |-> "paragraph", text |-> <<Line("text", "Hello", 5)>>]
    [] e = "longParagraph" ->
         [type |-> "paragraph", text |-> <<Line("text", "LongText", LongLen)>>]
    [] e = "bullet" -> [type |-> "bulleted_list_item", text |-> <<Line("text", "item", 4)>>]
    [] e = "numbered" -> [type |-> "numbered_list_item", text |-> <<Line("text", "step", 4)>>]
    [] e = "code" -> [type |-> "code", text |-> <<Line("text", "print(1)", 8)>>]
    [] OTHER -> [type |-> "divider", text |-> << >>]

\* the elements' blocks occur among `got`, in the elements' order
RECURSIVE Embeds(_, _)
Embeds(es, got) ==
  IF es = << >> THEN TRUE
  ELSE IF got = << >> THEN FALSE
  ELSE IF /\ Head(got).type = ExpectedOf(Head(es)).type
          /\ Head(got).text = ExpectedOf(Head(es)).text
       THEN Embeds(Tail(es), Tail(got))
       ELSE Embeds(es, Tail(got))

ShortElems == Elems \ {"longHeading", "longParagraph"}

\* C13: a document of N elements (none of them over the size limit) converts
\* to at least N blocks among which the elements' kinds and texts occur in
\* the document's order, whichever converter is used.
C13_ElementsKeptInOrder ==
  (probe.op = "converted" /\ Range(probe.elems) \subseteq ShortElems)
    => /\ Len(probe.blocks) >= Len(probe.elems)
       /\ Embeds(probe.elems, probe.blocks)

\* parseMarkdownToBlocks by itself keeps the elements and their order
ParseKeepsElements ==
  (probe.op = "converted" /\ probe.conv = "parse"
     /\ Range(probe.elems) \subseteq ShortElems)
    => /\ Len(probe.blocks) = Len(probe.elems)
       /\ Embeds(probe.elems, probe.blocks)

\* C14: the seven-line text "# Title", "", "Hello", "", fence "py",
\* "print(1)", fence converts to exactly Heading 1 "Title", Paragraph "Hello",
\* CodeBlock "python" "print(1)".
C14_SevenLineExample ==
  (probe.op = "converted" /\ probe.conv \in {"markdown", "enhanced"}
     /\ probe.elems = <<"heading", "paragraph", "code">>)
    => probe.blocks = <<Block("heading_1", <<Line("text", "Title", 5)>>, ""),
                        Block("paragraph", <<Line("text", "Hello", 5)>>, ""),
                        Block("code", <<Line("text", "print(1)", 8)>>, "python")>>

\* C35: the blocks written for a text when its page is created in an
\* incremental pass (parseMarkdownToBlocks) are the blocks written for the
\* same text when it is sent as an update (convertMarkdownToEnhancedBlocks).
C35_CreateEqualsUpdate ==
  (probe.op = "converted" /\ probe.conv = "parse")
    => probe.blocks = convertMarkdownToEnhancedBlocks(DocLines(probe.elems))


\* C37: sanitization keeps every line feed, so the text the converter scans
\* after it has the lines the document has: as many, each of the same class.
C37_SanitizeKeepsLines ==
  (probe.op = "converted" /\ probe.conv = "utils")
    => LET ls == DocLines(probe.elems)
           out == sanitizeContent(ls)
       IN /\ Len(out) = Len(ls)
          /\ \A k \in DOMAIN ls : out[k].k = ls[k].k

\* C38: every code block a converter emits carries a language of the
\* supported list; a fence token that is not in the list gives "plain text".
C38_CodeLanguageSupported ==
  probe.op = "converted"
    => \A k \in DOMAIN probe.blocks :
         probe.blocks[k].type = "code"
           => probe.blocks[k].language \in SupportedLanguages

\* --------------------------------------------------- splitting a long text
\* A text is a sequence of characters; "a" stands for any character that is
\* not a line feed.  Positions are counted from 0 as in the code.
MaxText == 7        \* characters of a text
MaxChunk == 3       \* maxSize values 2..MaxChunk

TextChars == {"a", "\n"}

Texts == UNION {[1..k -> TextChars] : k \in 0..MaxText}

\* content.lastIndexOf("\n", from): the last line feed at or before from, -1
\* when there is none
lastIndexOf(content, from) ==
  LET at == {j \in 0..(Len(content) - 1) : j <= from /\ content[j + 1] = "\n"}
  IN IF at = {} THEN -1 ELSE CHOOSE j \in at : \A o \in at : o <= j

\* the while loop of splitContentIntoChunks from position start; atLine: the
\* chunk ends where a line feed was found (history)
RECURSIVE splitFrom(_, _, _)
splitFrom(content, maxSize, start) ==
  IF start >= Len(content) THEN << >>
  ELSE LET limit == start + maxSize
           newlinePos == lastIndexOf(content, limit)
           atLine == limit < Len(content) /\ newlinePos > start
           end == IF limit < Len(content)
                  THEN (IF newlinePos > start THEN newlinePos ELSE limit)
                  ELSE Len(content)
       IN <<[text |-> SubSeq(content, start + 1, end), atLine |-> atLine]>>
            \o splitFrom(content, maxSize, end + 1)

splitContentIntoChunks(content, maxSize) == splitFrom(content, maxSize, 0)

InitSplit ==
  /\ vault = InitVault
  /\ now = 1
  /\ pages = InitRemote(InitPages)
  /\ svc = [k \in Inst |-> [pageCache |-> EmptyCache, fileHashes |-> EmptyTracking]]
  /\ cur = 1
  /\ persisted = EmptyTracking
  /\ pass = [s \in Slots |-> IdlePass]
  /\ faults = 0
  /\ started = 0
  /\ last = NoLast
  /\ dirty = FALSE
  /\ overlap = FALSE
  /\ excludeFolders = {}
  /\ \E t \in Texts, m \in 2..MaxChunk :
       probe = [op |-> "text", content |-> t, maxSize |-> m, parts |-> << >>]

\* enhancedMarkdownToNotionBlocks: const parts = splitContentIntoChunks(content, ...)
SplitText ==
  /\ probe.op = "text"
  /\ probe' = [probe EXCEPT !.op = "split",
                            !.parts = splitContentIntoChunks(probe.content, probe.maxSize)]
  /\ UNCHANGED <<vault, now, pages, svc, cur, persisted, pass, faults, started, last,
                 dirty, overlap, excludeFolders>>

SpecSplit == InitSplit /\ [][SplitText]_vars

\* the chunks in order, a line feed put back after each chunk that ends at one
RECURSIVE Rejoined(_)
Rejoined(parts) ==
  IF parts = << >> THEN << >>
  ELSE Head(parts).text \o (IF Head(parts).atLine THEN <<"\n">> ELSE << >>)
         \o Rejoined(Tail(parts))

\* C36: the chunks of a split text are each within the limit and, taken in
\* order with one line feed restored at each split made at a line boundary,
\* give back the text: no character is lost, also where the text is cut at
\* the limit because no line boundary comes before it.
C36_SplitLosesNothing ==
  probe.op = "split"
    => /\ \A k \in DOMAIN probe.parts : Len(probe.parts[k].text) <= probe.maxSize
       /\ Rejoined(probe.parts) = probe.content

====
